---- MODULE Spec2Model ----
(***************************************************************************)
(* Field encryption service and Prisma encryption middleware of the Aliyah *)
(* platform (src/lib/prisma.ts), with the registration endpoint that uses  *)
(* it (src/next.config.js).                                                *)
(*                                                                         *)
(* Data representation                                                     *)
(*   - a JavaScript string is a sequence of UTF-16 code units (numbers);   *)
(*   - a Buffer is a sequence of bytes 0..255;                             *)
(*   - a hex string is a sequence of hex digits 0..15;                     *)
(*   - a base64 string is a sequence of sextets 0..63, with 64 for '=';    *)
(*   - a JavaScript value is a record [t, v]: t is "str", "num", "null" or *)
(*     "obj" and v the sequence that carries it.                           *)
(* The cryptographic primitives of node:crypto are idealised: scrypt and   *)
(* the GCM tag are deterministic and collision free on the inputs the      *)
(* model draws, the cipher is a byte-wise stream cipher.                   *)
(***************************************************************************)
EXTENDS Integers, Sequences, FiniteSets, TLC

\* ------------------------------------------------------------------ bounds
\* Longest plaintext, in UTF-16 code units.
MaxTextLen == 2
\* Number of distinct values randomBytes can return for a salt.
NumSalts == 2
\* Most records the UserProfile table holds.
MaxRecords == 2
\* Most storage calls made through the middleware in one run.
MaxCalls == 3
\* requests in flight at a time
NumRequests == 2
\* questions of a quiz topic at most
MaxQuestions == 3
\* seconds the quiz timer counts
MaxTime == 1
\* translate calls in a run, and days the clock runs
MaxTranslations == 3
MaxDays == 2
\* files handed to the upload component in a run
NumFiles == 3
\* accounts that sign in, and sessions started in a run
NumAccounts == 3
MaxSessions == 3
\* updateAllSources calls in progress at a time, enabled RSS sources, and
\* article URLs the feeds carry
NumRuns == 2
NumSources == 2
NumUrls == 2
\* addresses and the longest recipient list of a sendEmail call
NumAddresses == 2
MaxRecipients == 3

\* ------------------------------------------------- EncryptionService fields
keyLength == 32
ivLength == 16
tagLength == 16
saltLength == 32
\* masterKey.length < 32
MinMasterKeyLength == 32

\* ------------------------------------------------------------------- bytes
Rep(b, n) == [i \in 1..n |-> b]

Pow2(n) == IF n = 0 THEN 1 ELSE IF n = 1 THEN 2 ELSE IF n = 2 THEN 4
           ELSE IF n = 3 THEN 8 ELSE IF n = 4 THEN 16 ELSE IF n = 5 THEN 32
           ELSE IF n = 6 THEN 64 ELSE IF n = 7 THEN 128 ELSE 256

Bit(a, k) == (a \div Pow2(k)) % 2

\* bitwise exclusive or of two bytes
Xor(a, b) ==
  LET d(k) == IF Bit(a, k) = Bit(b, k) THEN 0 ELSE Pow2(k)
  IN d(0) + d(1) + d(2) + d(3) + d(4) + d(5) + d(6) + d(7)

\* Buffer.subarray(from, to): zero-based, end exclusive, clamped to the buffer
Subarray(buf, from, to) ==
  LET f == IF from > Len(buf) THEN Len(buf) ELSE from
      t == IF to > Len(buf) THEN Len(buf) ELSE to
  IN IF t <= f THEN << >> ELSE [i \in 1..(t - f) |-> buf[f + i]]

\* ------------------------------------------------------------ conversions
IsHigh(u) == u >= 55296 /\ u <= 56319
IsLow(u) == u >= 56320 /\ u <= 57343

\* Buffer bytes of a string read as 'utf8' (cipher.update(text, 'utf8', ..)):
\* a surrogate pair is one 4-byte code point, an unpaired surrogate is
\* written as U+FFFD (EF BF BD).
RECURSIVE Utf8Encode(_)
Utf8Encode(s) ==
  IF s = << >> THEN << >>
  ELSE LET u == Head(s) IN
    IF u < 128 THEN <<u>> \o Utf8Encode(Tail(s))
    ELSE IF u < 2048
      THEN <<192 + (u \div 64), 128 + (u % 64)>> \o Utf8Encode(Tail(s))
    ELSE IF IsHigh(u) /\ Len(s) >= 2 /\ IsLow(s[2])
      THEN LET cp == 65536 + (u - 55296) * 1024 + (s[2] - 56320)
           IN <<240 + (cp \div 262144), 128 + ((cp \div 4096) % 64),
                128 + ((cp \div 64) % 64), 128 + (cp % 64)>>
              \o Utf8Encode(Tail(Tail(s)))
    ELSE IF IsHigh(u) \/ IsLow(u)
      THEN <<239, 191, 189>> \o Utf8Encode(Tail(s))
    ELSE <<224 + (u \div 4096), 128 + ((u \div 64) % 64), 128 + (u % 64)>>
         \o Utf8Encode(Tail(s))

IsCont(b) == b >= 128 /\ b <= 191

\* String of a buffer read as 'utf8' (decipher.update(.., .., 'utf8')): an
\* invalid byte becomes U+FFFD, a 4-byte code point becomes a surrogate pair.
RECURSIVE Utf8Decode(_)
Utf8Decode(b) ==
  IF b = << >> THEN << >>
  ELSE LET c == Head(b) IN
    IF c < 128 THEN <<c>> \o Utf8Decode(Tail(b))
    ELSE IF c >= 194 /\ c <= 223 /\ Len(b) >= 2 /\ IsCont(b[2])
      THEN <<(c - 192) * 64 + (b[2] - 128)>> \o Utf8Decode(Subarray(b, 2, Len(b)))
    ELSE IF c >= 224 /\ c <= 239 /\ Len(b) >= 3 /\ IsCont(b[2]) /\ IsCont(b[3])
            /\ (c - 224) * 4096 + (b[2] - 128) * 64 + (b[3] - 128) >= 2048
            /\ ~IsHigh((c - 224) * 4096 + (b[2] - 128) * 64 + (b[3] - 128))
            /\ ~IsLow((c - 224) * 4096 + (b[2] - 128) * 64 + (b[3] - 128))
      THEN <<(c - 224) * 4096 + (b[2] - 128) * 64 + (b[3] - 128)>>
           \o Utf8Decode(Subarray(b, 3, Len(b)))
    ELSE IF c >= 240 /\ c <= 244 /\ Len(b) >= 4 /\ IsCont(b[2]) /\ IsCont(b[3])
            /\ IsCont(b[4])
            /\ (c - 240) * 262144 + (b[2] - 128) * 4096 + (b[3] - 128) * 64
               + (b[4] - 128) >= 65536
            /\ (c - 240) * 262144 + (b[2] - 128) * 4096 + (b[3] - 128) * 64
               + (b[4] - 128) <= 1114111
      THEN LET cp == (c - 240) * 262144 + (b[2] - 128) * 4096
                     + (b[3] - 128) * 64 + (b[4] - 128) - 65536
           IN <<55296 + (cp \div 1024), 56320 + (cp % 1024)>>
              \o Utf8Decode(Subarray(b, 4, Len(b)))
    ELSE <<65533>> \o Utf8Decode(Tail(b))

\* buffer.toString('hex') / cipher output encoding 'hex'
ToHex(b) == [i \in 1..(2 * Len(b)) |->
               IF i % 2 = 1 THEN b[(i + 1) \div 2] \div 16 ELSE b[i \div 2] % 16]

\* Buffer.from(h, 'hex')
FromHex(h) == [i \in 1..(Len(h) \div 2) |-> h[2 * i - 1] * 16 + h[2 * i]]

\* buffer.toString('base64'); 64 stands for the padding character
ToBase64(b) ==
  LET n == Len(b)
      at(i) == IF i <= n THEN b[i] ELSE 0
      chr(j) ==
        LET g == (j - 1) \div 4
            k == (j - 1) % 4
            b1 == at(3 * g + 1)
            b2 == at(3 * g + 2)
            b3 == at(3 * g + 3)
        IN IF k = 0 THEN b1 \div 4
           ELSE IF k = 1 THEN (b1 % 4) * 16 + (b2 \div 16)
           ELSE IF k = 2
             THEN (IF 3 * g + 2 > n THEN 64 ELSE (b2 % 16) * 4 + (b3 \div 64))
           ELSE (IF 3 * g + 3 > n THEN 64 ELSE b3 % 64)
  IN [j \in 1..(4 * ((n + 2) \div 3)) |-> chr(j)]

\* Buffer.from(s, 'base64'): decoding stops at the first padding character,
\* an incomplete last group gives the bytes its sextets fill
FromBase64(s) ==
  LET pads == {i \in 1..Len(s) : s[i] = 64}
      m == IF pads = {} THEN Len(s)
           ELSE (CHOOSE i \in pads : \A j \in pads : i <= j) - 1
      n == (m \div 4) * 3 + (IF m % 4 = 2 THEN 1 ELSE IF m % 4 = 3 THEN 2 ELSE 0)
      byte(i) ==
        LET g == (i - 1) \div 3
            k == (i - 1) % 3
            c1 == s[4 * g + 1]
            c2 == s[4 * g + 2]
            c3 == IF 4 * g + 3 <= m THEN s[4 * g + 3] ELSE 0
            c4 == IF 4 * g + 4 <= m THEN s[4 * g + 4] ELSE 0
        IN IF k = 0 THEN c1 * 4 + (c2 \div 16)
           ELSE IF k = 1 THEN (c2 % 16) * 16 + (c3 \div 4)
           ELSE (c3 % 4) * 64 + c4
  IN [i \in 1..n |-> byte(i)]

\* ----------------------------------------------------------- JS values
Str(s) == [t |-> "str", v |-> s]
Num(n) == [t |-> "num", v |-> <<n>>]
Obj(s) == [t |-> "obj", v |-> s]
Null == [t |-> "null", v |-> << >>]
Undefined == [t |-> "undefined", v |-> << >>]

\* JavaScript truthiness (if (x), !x)
Truthy(x) ==
  \/ x.t = "str" /\ x.v # << >>
  \/ x.t = "num" /\ x.v # <<0>>
  \/ x.t = "obj"

IsString(x) == x.t = "str"

\* --------------------------------------------------- node:crypto, idealised
\* scrypt(masterKey, salt, keyLength): deterministic, and distinct on the
\* master keys and salts of the model
scrypt(masterKey, salt, len) ==
  [i \in 1..len |->
     ((IF masterKey = << >> THEN 0
       ELSE masterKey[((i - 1) % Len(masterKey)) + 1] * 31)
      + (IF salt = << >> THEN 0 ELSE salt[((i - 1) % Len(salt)) + 1] * 17)
      + Len(masterKey) * 7 + Len(salt) * 3 + i) % 256]

\* createCipher/createDecipher(algorithm, key): key and counter block both
\* come from the password alone (EVP_BytesToKey), so the key stream depends
\* on the derived key only; the iv the service draws never enters the cipher
KeyStream(key, i) == Xor(key[((i - 1) % Len(key)) + 1], (i * 29) % 256)

\* cipher.update + cipher.final, decipher.update + decipher.final
CipherBytes(key, data) == [i \in 1..Len(data) |-> Xor(data[i], KeyStream(key, i))]

\* cipher.getAuthTag(): the 16-byte GCM tag over the ciphertext under the key
GcmTag(key, ct) ==
  [i \in 1..16 |->
     IF i <= 2 THEN key[i]
     ELSE IF i = 3 THEN Xor(Len(ct) % 256, key[3])
     ELSE IF i - 3 <= Len(ct) THEN Xor(ct[i - 3], key[i])
     ELSE key[i]]

\* decipher.setAuthTag(tag) accepts these tag lengths for GCM
ValidGcmTagLengths == {4, 8, 12, 13, 14, 15, 16}

\* ------------------------------------------------------- EncryptionService
\* private async deriveKey(masterKey, salt)
deriveKey(masterKey, salt) == scrypt(masterKey, salt, keyLength)

MsgEncrypt == "Error al cifrar los datos"
MsgDecrypt == "Error al descifrar los datos"

\* A settled promise of encrypt or decrypt. ok: resolved. On resolve, value
\* is the string returned (decrypt) or EncryptedData.encrypted (encrypt).
\* On reject, name and message are those of the error thrown to the caller
\* and logged is what console.error received: the message of the error
\* caught, and in received the argument value that node quotes in the message
\* of an ERR_INVALID_ARG_TYPE error ("Received type number (5)"); << >> when
\* it quotes none. kdf and cipher count the key derivations and cipher objects
\* the call made.
Resolved(value, authTag, iv) ==
  [ok |-> TRUE, value |-> value, authTag |-> authTag, iv |-> iv,
   name |-> "", message |-> "", logged |-> "", received |-> << >>,
   kdf |-> 1, cipher |-> 1]

Rejected(message, logged, kdf, cipher) ==
  [ok |-> FALSE, value |-> << >>, authTag |-> << >>, iv |-> << >>,
   name |-> "Error", message |-> message, logged |-> logged,
   received |-> << >>, kdf |-> kdf, cipher |-> cipher]

NoCall ==
  [ok |-> FALSE, value |-> << >>, authTag |-> << >>, iv |-> << >>,
   name |-> "", message |-> "", logged |-> "", received |-> << >>,
   kdf |-> 0, cipher |-> 0]

\* the buffer packed with the tag after the ciphertext
Combine_TagLast(salt, iv, authTag, encrypted) == salt \o iv \o encrypted \o authTag

\* the buffer packed with a constant in the place of the iv
Combine_ConstantIv(salt, iv, authTag, encrypted) ==
  salt \o Rep(0, ivLength) \o authTag \o encrypted

\* Buffer.concat([salt, iv, authTag, encrypted])
Combine(salt, iv, authTag, encrypted) == salt \o iv \o authTag \o encrypted

\* async encrypt(text). masterKey is process.env.ENCRYPTION_KEY at the call,
\* salt and iv are the two randomBytes draws, fault is true when scrypt
\* rejects (a cipher-library fault).
encrypt(masterKey, text, salt, iv, fault) ==
  IF ~Truthy(masterKey) \/ Len(masterKey.v) < MinMasterKeyLength
    THEN Rejected(MsgEncrypt, "ENCRYPTION_KEY debe tener al menos 32 caracteres", 0, 0)
  ELSE IF fault
    THEN Rejected(MsgEncrypt, "scrypt", 1, 0)
  ELSE IF ~IsString(text)
    THEN [Rejected(MsgEncrypt, "ERR_INVALID_ARG_TYPE", 1, 1)
            EXCEPT !.received = IF text.t = "num" THEN text.v ELSE << >>]
  ELSE
    LET key == deriveKey(masterKey.v, salt)
        encrypted == ToHex(CipherBytes(key, Utf8Encode(text.v)))
        authTag == ToHex(GcmTag(key, FromHex(encrypted)))
        combined == Combine(salt, iv, FromHex(authTag), FromHex(encrypted))
    IN Resolved(ToBase64(combined), authTag, ToHex(iv))

\* combined.subarray(..): the four components decrypt extracts
ExtractSalt(combined) == Subarray(combined, 0, saltLength)
ExtractIv(combined) == Subarray(combined, saltLength, saltLength + ivLength)
ExtractAuthTag(combined) ==
  Subarray(combined, saltLength + ivLength, saltLength + ivLength + tagLength)
\* the ciphertext taken from where the tag starts
ExtractEncrypted_FromTag(combined) ==
  Subarray(combined, saltLength + ivLength, Len(combined))
ExtractEncrypted(combined) ==
  Subarray(combined, saltLength + ivLength + tagLength, Len(combined))

\* decipher.setAuthTag(authTag) then update + final: final() authenticates
\* the ciphertext against the tag that was set; setAuthTag throws on a tag
\* of an unsupported length, which decrypt swallows, leaving no tag set
Authenticates(key, authTag, encrypted) ==
  /\ Len(authTag) \in ValidGcmTagLengths
  /\ authTag = Subarray(GcmTag(key, encrypted), 0, Len(authTag))

\* async decrypt(encryptedData): a base64 string or an EncryptedData object
decrypt(masterKey, encryptedData) ==
  IF ~Truthy(masterKey)
    THEN Rejected(MsgDecrypt, "ENCRYPTION_KEY no esta configurada", 0, 0)
  ELSE IF encryptedData.t \notin {"str", "obj"}
    THEN Rejected(MsgDecrypt, "ERR_INVALID_ARG_TYPE", 0, 0)
  ELSE
    LET combined == FromBase64(encryptedData.v)
        salt == ExtractSalt(combined)
        iv == ExtractIv(combined)
        authTag == ExtractAuthTag(combined)
        encrypted == ExtractEncrypted(combined)
        key == deriveKey(masterKey.v, salt)
    IN IF Authenticates(key, authTag, encrypted)
         THEN Resolved(Utf8Decode(CipherBytes(key, encrypted)), << >>, << >>)
         ELSE Rejected(MsgDecrypt,
                       "Unsupported state or unable to authenticate data", 1, 1)

\* ------------------------------------------------------- JS objects
\* an object is a function from its keys to the values they hold
Get(o, k) == IF k \in DOMAIN o THEN o[k] ELSE Undefined
Put(o, k, val) == [x \in DOMAIN o \cup {k} |-> IF x = k THEN val ELSE o[x]]
Delete(o, k) == [x \in DOMAIN o \ {k} |-> o[x]]
\* { ...a, ...b }
Spread(a, b) == [x \in DOMAIN a \cup DOMAIN b |-> IF x \in DOMAIN b THEN b[x] ELSE a[x]]
EmptyObject == [x \in {} |-> Undefined]

\* `${field}Encrypted`
EncryptedField(field) == field \o "Encrypted"

\* the randomBytes draws of the n-th encrypt call of a handler run whose
\* random source is in state r
SaltDraw(r, n) == Rep((r + n) % NumSalts, saltLength)
IvDraw(r, n) == Rep(200 + ((r + n) % 2), ivLength)

\* async encryptObject(obj, fieldsToEncrypt): the loop over the fields, with
\* result the copy being built and n the encrypt calls made so far; threw is
\* true when an encrypt call rejected, which ends the loop
RECURSIVE EncryptObjectLoop(_, _, _, _, _, _, _)
RECURSIVE EncryptObjectField(_, _, _, _, _, _, _, _)
\* the loop without the `typeof obj[field] === 'string'` test
EncryptObjectLoop_NoTypeTest(masterKey, obj, result, fields, n, r, faultAt) ==
  IF fields = << >> THEN [threw |-> FALSE, result |-> result, calls |-> n]
  ELSE IF Truthy(Get(obj, Head(fields)))
    THEN EncryptObjectField(masterKey, obj, result, fields, n, r, faultAt,
           encrypt(masterKey, obj[Head(fields)], SaltDraw(r, n + 1),
                   IvDraw(r, n + 1), faultAt = n + 1))
  ELSE EncryptObjectLoop(masterKey, obj, result, Tail(fields), n, r, faultAt)

EncryptObjectLoop(masterKey, obj, result, fields, n, r, faultAt) ==
  IF fields = << >> THEN [threw |-> FALSE, result |-> result, calls |-> n]
  ELSE IF Truthy(Get(obj, Head(fields))) /\ IsString(Get(obj, Head(fields)))
    THEN EncryptObjectField(masterKey, obj, result, fields, n, r, faultAt,
           encrypt(masterKey, obj[Head(fields)], SaltDraw(r, n + 1),
                   IvDraw(r, n + 1), faultAt = n + 1))
  ELSE EncryptObjectLoop(masterKey, obj, result, Tail(fields), n, r, faultAt)

\* the loop body without `delete result[field]`
EncryptObjectField_KeepsPlain(masterKey, obj, result, fields, n, r, faultAt, e) ==
  IF e.ok
    THEN EncryptObjectLoop(masterKey, obj,
           Put(result, EncryptedField(Head(fields)), Str(e.value)),
           Tail(fields), n + 1, r, faultAt)
    ELSE [threw |-> TRUE, result |-> result, calls |-> n + 1]

\* the loop body once encrypt has settled as e: result[`${field}Encrypted`]
\* = encrypted.encrypted; delete result[field]
EncryptObjectField(masterKey, obj, result, fields, n, r, faultAt, e) ==
  IF e.ok
    THEN EncryptObjectLoop(masterKey, obj,
           Delete(Put(result, EncryptedField(Head(fields)), Str(e.value)), Head(fields)),
           Tail(fields), n + 1, r, faultAt)
    ELSE [threw |-> TRUE, result |-> result, calls |-> n + 1]

encryptObject(masterKey, obj, fieldsToEncrypt, r, faultAt) ==
  EncryptObjectLoop(masterKey, obj, obj, fieldsToEncrypt, 0, r, faultAt)

\* async decryptObject(obj, fieldsToDecrypt): a field whose decrypt rejects
\* is logged and keeps its encrypted form
RECURSIVE DecryptObjectLoop(_, _, _, _)
RECURSIVE DecryptObjectField(_, _, _, _, _)
DecryptObjectLoop(masterKey, obj, result, fields) ==
  IF fields = << >> THEN result
  ELSE IF Truthy(Get(obj, EncryptedField(Head(fields))))
    THEN DecryptObjectField(masterKey, obj, result, fields,
           decrypt(masterKey, obj[EncryptedField(Head(fields))]))
  ELSE DecryptObjectLoop(masterKey, obj, result, Tail(fields))

\* the try block without `delete result[encryptedField]`
DecryptObjectField_KeepsEncrypted(masterKey, obj, result, fields, d) ==
  DecryptObjectLoop(masterKey, obj,
    IF d.ok THEN Put(result, Head(fields), Str(d.value)) ELSE result,
    Tail(fields))

\* the try block once decrypt has settled as d
DecryptObjectField(masterKey, obj, result, fields, d) ==
  DecryptObjectLoop(masterKey, obj,
    IF d.ok
      THEN Delete(Put(result, Head(fields), Str(d.value)), EncryptedField(Head(fields)))
      ELSE result,
    Tail(fields))

\* decryptObject building its result from {} instead of { ...obj }
decryptObject_FromEmpty(masterKey, obj, fieldsToDecrypt) ==
  DecryptObjectLoop(masterKey, obj, EmptyObject, fieldsToDecrypt)

decryptObject(masterKey, obj, fieldsToDecrypt) ==
  DecryptObjectLoop(masterKey, obj, obj, fieldsToDecrypt)

\* ------------------------------------------------ createEncryptionMiddleware
sensitiveFields ==
  <<"firstName", "lastName", "phone", "birthDate", "nationality", "address",
    "motivation">>

\* what a storage call or the middleware hands back: nothing yet ("none"),
\* null, one record or a list of records; ok is false when it threw
NoResult == [ok |-> TRUE, kind |-> "none", items |-> << >>, message |-> ""]
NullResult == [ok |-> TRUE, kind |-> "null", items |-> << >>, message |-> ""]
One(record) == [ok |-> TRUE, kind |-> "one", items |-> <<record>>, message |-> ""]
Many(records) == [ok |-> TRUE, kind |-> "many", items |-> records, message |-> ""]
Thrown(message) == [ok |-> FALSE, kind |-> "none", items |-> << >>, message |-> message]

\* params of a Prisma call: model, action, args.where.id (0: none), args.data
Params(model, action, id, hasData, data) ==
  [model |-> model, action |-> action, id |-> id, hasData |-> hasData, data |-> data]
NoParams == Params("", "", 0, FALSE, EmptyObject)

\* next(params): the storage call the middleware wraps. store is the table
\* of params.model, a sequence of records, a record's id its position.
next(store, params) ==
  IF params.action = "create"
    THEN LET record == Put(params.data, "id", Num(Len(store) + 1))
         IN [db |-> Append(store, record), result |-> One(record)]
  ELSE IF params.action = "update"
    THEN LET record == Spread(store[params.id], params.data)
         IN [db |-> [store EXCEPT ![params.id] = record], result |-> One(record)]
  ELSE IF params.action = "findUnique"
    THEN [db |-> store,
          result |-> IF params.id \in 1..Len(store) THEN One(store[params.id])
                     ELSE NullResult]
  ELSE IF params.action = "findUniqueOrThrow"
    THEN [db |-> store,
          result |-> IF params.id \in 1..Len(store) THEN One(store[params.id])
                     ELSE Thrown("NotFoundError")]
  ELSE IF params.action = "findFirst"
    THEN [db |-> store,
          result |-> IF store = << >> THEN NullResult ELSE One(store[1])]
  ELSE [db |-> store, result |-> Many(store)]

\* the write branch: for (const field of sensitiveFields) on params.args.data,
\* which is changed in place; threw is true when an encrypt call rejected
RECURSIVE EncryptDataLoop(_, _, _, _, _, _)
RECURSIVE EncryptDataField(_, _, _, _, _, _, _)
EncryptDataLoop(masterKey, data, fields, n, r, faultAt) ==
  IF fields = << >> THEN [threw |-> FALSE, data |-> data, calls |-> n]
  ELSE IF Truthy(Get(data, Head(fields)))
    THEN EncryptDataField(masterKey, data, fields, n, r, faultAt,
           encrypt(masterKey, data[Head(fields)], SaltDraw(r, n + 1),
                   IvDraw(r, n + 1), faultAt = n + 1))
  ELSE EncryptDataLoop(masterKey, data, Tail(fields), n, r, faultAt)

\* the loop body without `delete data[field]`
EncryptDataField_KeepsPlain(masterKey, data, fields, n, r, faultAt, e) ==
  IF e.ok
    THEN EncryptDataLoop(masterKey,
           Put(data, EncryptedField(Head(fields)), Str(e.value)),
           Tail(fields), n + 1, r, faultAt)
    ELSE [threw |-> TRUE, data |-> data, calls |-> n + 1]

\* the loop body once encrypt has settled as e: data[`${field}Encrypted`] =
\* encrypted.encrypted; delete data[field]
EncryptDataField(masterKey, data, fields, n, r, faultAt, e) ==
  IF e.ok
    THEN EncryptDataLoop(masterKey,
           Delete(Put(data, EncryptedField(Head(fields)), Str(e.value)), Head(fields)),
           Tail(fields), n + 1, r, faultAt)
    ELSE [threw |-> TRUE, data |-> data, calls |-> n + 1]

\* the read branch on one item of the result, changed in place
RECURSIVE DecryptItemLoop(_, _, _)
RECURSIVE DecryptItemField(_, _, _, _)
DecryptItemLoop(masterKey, item, fields) ==
  IF fields = << >> THEN item
  ELSE IF Truthy(Get(item, EncryptedField(Head(fields))))
    THEN DecryptItemField(masterKey, item, fields,
           decrypt(masterKey, item[EncryptedField(Head(fields))]))
  ELSE DecryptItemLoop(masterKey, item, Tail(fields))

\* the try block around the whole loop: a rejection ends the item's loop
DecryptItemField_StopsAtFailure(masterKey, item, fields, d) ==
  IF d.ok
    THEN DecryptItemLoop(masterKey,
           Delete(Put(item, Head(fields), Str(d.value)), EncryptedField(Head(fields))),
           Tail(fields))
    ELSE item

\* the try block once decrypt has settled as d; a rejection is logged only
DecryptItemField(masterKey, item, fields, d) ==
  DecryptItemLoop(masterKey,
    IF d.ok
      THEN Delete(Put(item, Head(fields), Str(d.value)), EncryptedField(Head(fields)))
      ELSE item,
    Tail(fields))

\* only items[0] is decrypted
DecryptItems_FirstOnly(masterKey, items) ==
  [i \in 1..Len(items) |->
     IF i = 1 THEN DecryptItemLoop(masterKey, items[i], sensitiveFields) ELSE items[i]]

\* for (const item of items)
DecryptItems(masterKey, items) ==
  [i \in 1..Len(items) |-> DecryptItemLoop(masterKey, items[i], sensitiveFields)]

IsWrite(params) ==
  (params.action = "create" \/ params.action = "update")
  /\ params.model = "UserProfile"

\* the read branch taken for every model
IsRead_AnyModel(params) ==
  params.action = "findUnique" \/ params.action = "findFirst"
  \/ params.action = "findMany"

IsRead(params) ==
  (params.action = "findUnique" \/ params.action = "findFirst"
   \/ params.action = "findMany")
  /\ params.model = "UserProfile"

\* the middleware from `const result = await next(params)` on: passed are the
\* params next receives, out is what next does with them
AfterNext(masterKey, params, passed, out) ==
  [threw |-> FALSE, called |-> TRUE, passed |-> passed, db |-> out.db,
   raw |-> out.result,
   result |-> IF IsRead(params)
                THEN [out.result EXCEPT !.items = DecryptItems(masterKey, @)]
                ELSE out.result]

\* the middleware catching the rejection of the write branch and going on
AfterEncrypt_GoesOn(masterKey, store, params, enc) ==
  [AfterNext(masterKey, params, [params EXCEPT !.data = enc.data],
             next(store, [params EXCEPT !.data = enc.data]))
     EXCEPT !.threw = enc.threw]

\* the middleware once the write branch has run as enc
AfterEncrypt(masterKey, store, params, enc) ==
  IF enc.threw
    THEN [threw |-> TRUE, called |-> FALSE,
          passed |-> [params EXCEPT !.data = enc.data], db |-> store,
          raw |-> NoResult, result |-> Thrown(MsgEncrypt)]
    ELSE AfterNext(masterKey, params, [params EXCEPT !.data = enc.data],
                   next(store, [params EXCEPT !.data = enc.data]))

\* the middleware function createEncryptionMiddleware returns, run on params
\* against the table store: threw (an encrypt call rejected), called (next
\* was called), passed (the params next received), db (the table afterwards),
\* raw (what next returned), result (what the caller gets)
Middleware(masterKey, store, params, r, faultAt) ==
  AfterEncrypt(masterKey, store, params,
    IF IsWrite(params) /\ params.hasData
      THEN EncryptDataLoop(masterKey, params.data, sensitiveFields, 0, r, faultAt)
      ELSE [threw |-> FALSE, data |-> params.data, calls |-> 0])

\* ------------------------------------------------ registration endpoint
\* async encryptSensitiveUserData(userData): for (const [key, value] of
\* Object.entries(userData)), keys being the entries' keys in order
RECURSIVE EncryptUserDataLoop(_, _, _, _, _, _, _)
RECURSIVE EncryptUserDataEntry(_, _, _, _, _, _, _, _)
EncryptUserDataLoop(masterKey, userData, encrypted, keys, n, r, faultAt) ==
  IF keys = << >> THEN [threw |-> FALSE, result |-> encrypted, calls |-> n]
  ELSE IF Truthy(Get(userData, Head(keys))) /\ IsString(Get(userData, Head(keys)))
    THEN EncryptUserDataEntry(masterKey, userData, encrypted, keys, n, r, faultAt,
           encrypt(masterKey, userData[Head(keys)], SaltDraw(r, n + 1),
                   IvDraw(r, n + 1), faultAt = n + 1))
  ELSE EncryptUserDataLoop(masterKey, userData, encrypted, Tail(keys), n, r, faultAt)

\* the loop body once encrypt has settled as e
EncryptUserDataEntry(masterKey, userData, encrypted, keys, n, r, faultAt, e) ==
  IF e.ok
    THEN EncryptUserDataLoop(masterKey, userData,
           Put(encrypted, EncryptedField(Head(keys)), Str(e.value)),
           Tail(keys), n + 1, r, faultAt)
    ELSE [threw |-> TRUE, result |-> encrypted, calls |-> n + 1]

encryptSensitiveUserData(masterKey, userData, r, faultAt) ==
  EncryptUserDataLoop(masterKey, userData, EmptyObject, sensitiveFields, 0, r, faultAt)

\* registerSchema.parse(body): email is 0 for a malformed address, rest says
\* whether the fields the model leaves out (password, consents, ..) pass
Validates(body) ==
  /\ body.email # 0
  /\ body.rest
  /\ IsString(Get(body.data, "firstName")) /\ Len(body.data["firstName"].v) >= 1
  /\ IsString(Get(body.data, "lastName")) /\ Len(body.data["lastName"].v) >= 1
  /\ \A k \in DOMAIN body.data : IsString(body.data[k])

\* data of the tx.userProfile.create call of POST: the encrypted fields and
\* the plain ones, for the user just created
ProfileData(us, body, encryptedData) ==
  Spread(Put(encryptedData, "userId", Num(Len(us) + 1)),
         [jewishStatus |-> body.jewishStatus])

NoWrite(status, valid, threw, us, store) ==
  [status |-> status, valid |-> valid, encThrew |-> threw, wrote |-> FALSE,
   profile |-> EmptyObject, users |-> us, db |-> store]

\* POST from the encryption on, enc being how encryptSensitiveUserData went:
\* the prisma.$transaction creates the user, then the profile
PostEncrypted(us, store, body, enc) ==
  IF enc.threw
    THEN NoWrite(500, TRUE, TRUE, us, store)
    ELSE [status |-> 200, valid |-> TRUE, encThrew |-> FALSE, wrote |-> TRUE,
          profile |-> ProfileData(us, body, enc.result),
          users |-> Append(us, body.email),
          db |-> next(store, Params("UserProfile", "create", 0, TRUE,
                                    ProfileData(us, body, enc.result))).db]

\* the handler writing the rows before it looks at the validation's outcome
POST_WritesFirst(masterKey, us, store, body, r, faultAt) ==
  IF \E i \in 1..Len(us) : us[i] = body.email
    THEN NoWrite(400, Validates(body), FALSE, us, store)
  ELSE IF Validates(body)
    THEN PostEncrypted(us, store, body,
           encryptSensitiveUserData(masterKey, body.data, r, faultAt))
  ELSE [PostEncrypted(us, store, body,
          encryptSensitiveUserData(masterKey, body.data, r, faultAt))
        EXCEPT !.status = 400, !.valid = FALSE]

\* export async function POST(request), body being request.json()
POST(masterKey, us, store, body, r, faultAt) ==
  IF ~Validates(body)
    THEN NoWrite(400, FALSE, FALSE, us, store)
  ELSE IF \E i \in 1..Len(us) : us[i] = body.email
    THEN NoWrite(400, TRUE, FALSE, us, store)
  ELSE PostEncrypted(us, store, body,
         encryptSensitiveUserData(masterKey, body.data, r, faultAt))

\* ------------------------------------------------------------ model inputs
\* UTF-16 code units the plaintexts are made of: 'a', an unpaired-capable high
\* surrogate (U+D83D) and a low surrogate (U+DE00); together they are U+1F600
CodeUnits == {97, 55357, 56832}

Texts == UNION {[1..n -> CodeUnits] : n \in 0..MaxTextLen}

\* what encrypt is called with: the strings, and two numbers a caller that
\* is not type-checked passes
PlainValues == {Str(s) : s \in Texts} \cup {Num(5), Num(7)}

\* randomBytes(saltLength), randomBytes(ivLength)
Salts == {Rep(r, saltLength) : r \in 0..(NumSalts - 1)}
Ivs == {Rep(200 + r, ivLength) : r \in 0..1}

\* values of process.env.ENCRYPTION_KEY: unset, empty, 31 characters, and two
\* keys of 32 characters
KeyA == Str(Rep(65, 32))
KeyB == Str(Rep(66, 32))
KeyShort == Str(Rep(65, 31))
MasterKeys == {Undefined, Str(<< >>), KeyShort, KeyA, KeyB}

\* a string survives the 'utf8' encoding iff it has no unpaired surrogate
RECURSIVE WellFormed(_)
WellFormed(s) ==
  IF s = << >> THEN TRUE
  ELSE IF IsHigh(Head(s))
    THEN Len(s) >= 2 /\ IsLow(s[2]) /\ WellFormed(Tail(Tail(s)))
  ELSE ~IsLow(Head(s)) /\ WellFormed(Tail(s))

\* the buffer with bit `bit` of its byte at one-based position pos flipped
FlipBit(buf, pos, bit) ==
  [i \in 1..Len(buf) |-> IF i = pos THEN Xor(buf[i], Pow2(bit)) ELSE buf[i]]

\* ------------------------------------------------------------------ state
VARIABLES
  env,        \* process.env.ENCRYPTION_KEY
  startKey,   \* process.env.ENCRYPTION_KEY as it was when the process started
  reqs,       \* the requests in flight, each with its locals
  heap,       \* the params.args.data objects of the requests in flight
  pc,         \* "idle", "encrypted" (a blob is at hand), "decrypted"
  plaintext,  \* argument of the last encrypt call
  encKey,     \* ENCRYPTION_KEY at the last encrypt call
  encrypted,  \* outcome of the last encrypt call
  blob,       \* the stored blob (base64) that decrypt is given
  tampered,   \* which region of blob was changed since encrypt: "none", "tag", "ciphertext", "truncated"
  form,       \* how decrypt was given the blob: "str" or "obj"
  decrypted,  \* outcome of the last decrypt call
  db,         \* the UserProfile table
  plain,      \* the table a storage without the middleware would hold
  corrupted,  \* a stored blob was damaged in the table
  calls,      \* storage calls made through the middleware so far
  call,       \* params of the last call, as the caller built them
  passed,     \* params as next received them (the caller's object, changed in place)
  called,     \* the last call reached next
  raw,        \* what next returned to the middleware
  result,     \* what the middleware returned to the caller
  encThrew,   \* an encrypt call of the last call rejected
  objOp,      \* the object operation last called: "none", "encryptObject", "decryptObject", "decryptEncrypted"
  objIn,      \* its obj argument
  objFields,  \* its field list argument
  objSource,  \* for decryptObject on the output of encryptObject: that call's obj
  objOut,     \* what it returned; ok is false when it threw
  users,      \* the User table: the emails registered, in order
  response    \* the registration endpoint's last response: status, and
              \* whether the body was valid and whether encryption threw

cryptoVars == <<pc, plaintext, encKey, encrypted, blob, tampered, form, decrypted>>
hookVars == <<db, plain, corrupted, calls, call, passed, called, raw,
              result, encThrew>>
objVars == <<objOp, objIn, objFields, objSource, objOut>>
postVars == <<users, response>>
concVars == <<reqs, heap>>

\* the state of the front-end components and of the other services
VARIABLES
  topic,      \* QuizComponent: the topic prop, with its questions
  state,      \* QuizComponent: the QuizState of useState
  submit,     \* QuizComponent: fetch('/api/quiz/submit') of the last finishQuiz:
              \* "none", "pending", "ok" or "failed"
  provider,   \* TranslationService: this.provider
  deeplTranslator, \* TranslationService: this.deeplTranslator is set
  cache,      \* TranslationService: this.cache, from key to entry
  now,        \* Date.now(), in days
  translations, \* translate calls made so far
  lastRequest,  \* the request of the last translate call
  lastResponse, \* what it returned, and how it got there
  files,      \* FileUpload: the files state, a list of FileWithProgress
  chains,     \* FileUpload: the onDrop calls still uploading, each with its
              \* newFiles, the index it gives each, and where its loop is
  dropped,    \* files handed to onDrop so far
  updating,   \* the file whose upload made the last change to files, 0 if
              \* the last step was none
  session,    \* AuthProvider: useSession().data, its user's id (0: no user)
  user,       \* AuthProvider: the user state
  effectDue,  \* AuthProvider: session changed and the effect has yet to run
  fetching,   \* AuthProvider: the ids refreshUser is fetching
  sessions,   \* sessions started so far
  articles,   \* NewsAggregator: the Article table, in order of creation
  newsSources, \* NewsAggregator: the names in the NewsSource table
  runs,       \* NewsAggregator: the updateAllSources calls in progress
  rejected,   \* creates the storage has rejected so far, capped at 1
  config,     \* EmailService: this.config
  mail,       \* EmailService: the sendEmail call, where it is and its result
  emailLog,   \* EmailService: the EmailLog table, in order of creation
  attempts    \* the messages handed to the email provider, in order

quizVars == <<topic, state, submit>>
transVars == <<provider, deeplTranslator, cache, now, translations, lastRequest,
               lastResponse>>
uploadVars == <<files, chains, dropped, updating>>
authVars == <<session, user, effectDue, fetching, sessions>>
newsVars == <<articles, newsSources, runs, rejected>>
mailVars == <<config, mail, emailLog, attempts>>
appVars == <<quizVars, transVars, uploadVars, authVars, newsVars, mailVars>>
coreVars == <<env, startKey, concVars, cryptoVars, hookVars, objVars, postVars>>
vars == <<coreVars, appVars>>

\* ------------------------------------------------- encrypt / decrypt calls
CryptoIdle ==
  /\ pc = "idle"
  /\ plaintext = Undefined
  /\ encKey = Undefined
  /\ encrypted = NoCall
  /\ blob = << >>
  /\ tampered = "none"
  /\ form = "str"
  /\ decrypted = NoCall

HookIdle ==
  /\ db = << >>
  /\ plain = << >>
  /\ corrupted = FALSE
  /\ calls = 0
  /\ call = NoParams
  /\ passed = NoParams
  /\ called = FALSE
  /\ raw = NoResult
  /\ result = NoResult
  /\ encThrew = FALSE

NoObject == [ok |-> TRUE, value |-> EmptyObject]

NoResponse == [status |-> 0, valid |-> FALSE, encThrew |-> FALSE]

PostIdle ==
  /\ users = << >>
  /\ response = NoResponse

ObjIdle ==
  /\ objOp = "none"
  /\ objIn = EmptyObject
  /\ objFields = << >>
  /\ objSource = EmptyObject
  /\ objOut = NoObject

\* A request slot with no request in it. A request in flight has: op, the
\* call it makes ("encrypt", "decrypt" or "hook"); pc, where it is suspended
\* ("derive": at `await scryptAsync` of an encrypt or decrypt call, "next": at
\* `await next(params)`, "done": settled); input and params, the argument of
\* the call as the caller gave it; r, its random draws; and the locals of the
\* calls in progress: key (masterKey), arg (the text or blob of the pending
\* encrypt or decrypt), field and fields (the field of the pending call and
\* those the loop has yet to visit), n (encrypt calls made), at (the index of
\* the item the read loop is on, 0 in the write loop), passed (args.data as
\* next received it), store (the table as the storage call found it),
\* settled and result (what the caller gets), threw, and met (it was resumed
\* while another request was suspended).
NoRequest ==
  [op |-> "none", pc |-> "idle", input |-> Undefined, params |-> NoParams,
   r |-> 0, key |-> Undefined, arg |-> Undefined, field |-> "",
   fields |-> << >>, n |-> 0, at |-> 0, passed |-> EmptyObject,
   store |-> << >>, settled |-> NoCall, result |-> NoResult,
   threw |-> FALSE, met |-> FALSE]

ConcIdle ==
  /\ reqs = [i \in 1..NumRequests |-> NoRequest]
  /\ heap = [i \in 1..NumRequests |-> EmptyObject]

\* ------------------------------------------------------------ QuizComponent
\* what the component is mounted with: useState's initial value; result is
\* undefined, here a record of score -1
NoQuizResult ==
  [score |-> -1, totalQuestions |-> 0, correctAnswers |-> 0,
   incorrectAnswers |-> << >>, timeSpent |-> 0, passed |-> FALSE]

InitialQuizState ==
  [currentQuestion |-> 0, selectedAnswers |-> EmptyObject, timeSpent |-> 0,
   showExplanation |-> FALSE, isCompleted |-> FALSE, result |-> NoQuizResult]

\* a question with answers "a" and "b", correct being the correct one
Question(correct) ==
  [answers |-> <<[id |-> "a", isCorrect |-> correct = "a"],
                 [id |-> "b", isCorrect |-> correct = "b"]>>]

\* the topics: up to MaxQuestions questions (none too), a required score
Topics ==
  { [questions |-> [i \in 1..n |-> Question(c[i])], requiredScore |-> req] :
      n \in 0..MaxQuestions, c \in [1..MaxQuestions -> {"a", "b"}],
      req \in {50, 70} }

QuizMounted ==
  /\ state = InitialQuizState
  /\ submit = "none"

QuizIdle ==
  /\ topic = [questions |-> << >>, requiredScore |-> 50]
  /\ QuizMounted

\* ------------------------------------------------------- TranslationService
NoTranslation ==
  [translatedText |-> << >>, detectedLanguage |-> << >>, confidence |-> -1,
   threw |-> FALSE, hit |-> FALSE, tried |-> << >>, stored |-> FALSE,
   of |-> << >>]

NoTranslationRequest == [text |-> << >>, fromLanguage |-> << >>, toLanguage |-> << >>]

TransIdle ==
  /\ provider = "google"
  /\ deeplTranslator = FALSE
  /\ cache = EmptyObject
  /\ now = 0
  /\ translations = 0
  /\ lastRequest = NoTranslationRequest
  /\ lastResponse = NoTranslation

\* ------------------------------------------------------------- FileUpload
UploadIdle ==
  /\ files = << >>
  /\ chains = << >>
  /\ dropped = 0
  /\ updating = 0

\* ----------------------------------------------------------- AuthProvider
\* user === null
NoUser == [id |-> 0, role |-> "", profile |-> FALSE, full |-> FALSE]

AuthIdle ==
  /\ session = 0
  /\ user = NoUser
  /\ effectDue = FALSE
  /\ fetching = {}
  /\ sessions = 0

\* --------------------------------------------------------- NewsAggregator
\* no updateAllSources call in progress: pc is where a call is suspended,
\* source the index of the source its loop is on, feed and i the articles of
\* saveArticles and its position in them, savedCount its count
NoRun == [pc |-> "idle", source |-> 0, feed |-> << >>, i |-> 0, savedCount |-> 0]

NewsIdle ==
  /\ articles = << >>
  /\ newsSources = {}
  /\ runs = [r \in 1..NumRuns |-> NoRun]
  /\ rejected = 0

\* ----------------------------------------------------------- EmailService
\* no sendEmail call: pc is where the call is suspended, recipients the
\* array it loops over, i its position, variables the keys of
\* data.variables, success the provider's answer for recipient i, result
\* what the call returned
NoMail == [pc |-> "idle", recipients |-> << >>, i |-> 0, variables |-> {},
           success |-> FALSE, result |-> FALSE]

MailIdle ==
  /\ config = [provider |-> "smtp"]
  /\ mail = NoMail
  /\ emailLog = << >>
  /\ attempts = << >>

AppIdle ==
  /\ QuizIdle
  /\ TransIdle
  /\ UploadIdle
  /\ AuthIdle
  /\ NewsIdle
  /\ MailIdle

CryptoInit ==
  /\ env \in MasterKeys
  /\ startKey = env
  /\ AppIdle
  /\ ConcIdle
  /\ CryptoIdle
  /\ HookIdle
  /\ ObjIdle
  /\ PostIdle

\* a request calls encrypt(text)
CallEncrypt ==
  /\ pc = "idle"
  /\ \E text \in PlainValues, salt \in Salts,
        iv \in Ivs, fault \in BOOLEAN :
       /\ (fault => text = Str(<<97>>) /\ salt = Rep(0, saltLength)
                    /\ iv = Rep(200, ivLength))
       /\ plaintext' = text
       /\ encrypted' = encrypt(env, text, salt, iv, fault)
  /\ encKey' = env
  /\ blob' = encrypted'.value
  /\ pc' = IF encrypted'.ok THEN "encrypted" ELSE "idle"
  /\ UNCHANGED <<env, startKey, concVars, appVars, tampered, form, decrypted, hookVars, objVars, postVars>>

\* the stored blob is corrupted: one bit of its tag or ciphertext region flips
Tamper ==
  /\ pc = "encrypted"
  /\ tampered = "none"
  /\ env = encKey
  /\ env = startKey
  /\ LET combined == FromBase64(blob)
         header == saltLength + ivLength
     IN \E pos \in (header + 1)..Len(combined), bit \in 0..7 :
          /\ blob' = ToBase64(FlipBit(combined, pos, bit))
          /\ tampered' = IF pos <= header + tagLength THEN "tag" ELSE "ciphertext"
  /\ UNCHANGED <<env, startKey, concVars, appVars, pc, plaintext, encKey, encrypted, form, decrypted, hookVars, objVars, postVars>>

\* byte lengths a stored blob of len bytes is cut to: inside the salt, the
\* iv and the tag, and inside the ciphertext
CutLengths(len) ==
  {n \in {0, 20, 40, saltLength + ivLength + 4, saltLength + ivLength + 10,
          saltLength + ivLength + tagLength - 1} : n < len}
  \cup {n \in (saltLength + ivLength + tagLength)..(len - 1) : TRUE}

\* the stored blob is cut short
Truncate ==
  /\ pc = "encrypted"
  /\ tampered = "none"
  /\ env = encKey
  /\ env = startKey
  /\ \E n \in CutLengths(Len(FromBase64(blob))) :
       blob' = ToBase64(Subarray(FromBase64(blob), 0, n))
  /\ tampered' = "truncated"
  /\ UNCHANGED <<env, startKey, concVars, appVars, pc, plaintext, encKey, encrypted, form, decrypted, hookVars, objVars, postVars>>

\* the process restarts with another ENCRYPTION_KEY; stored blobs remain
Restart ==
  /\ pc \in {"idle", "encrypted"}
  /\ tampered = "none"
  /\ \E k \in MasterKeys : k # env /\ env' = k
  /\ startKey' = env'
  /\ UNCHANGED <<concVars, appVars, cryptoVars, hookVars, objVars, postVars>>

\* process.env.ENCRYPTION_KEY is assigned another value while the process runs
Reconfigure ==
  /\ pc \in {"idle", "encrypted"}
  /\ tampered = "none"
  /\ env = startKey
  /\ env = KeyA
  /\ \E k \in {KeyB, Undefined} : env' = k
  /\ UNCHANGED <<startKey, concVars, appVars, cryptoVars, hookVars, objVars, postVars>>

\* a request calls decrypt on the blob, as a string or as an EncryptedData
CallDecrypt ==
  /\ pc = "encrypted"
  /\ \E f \in {"str", "obj"} :
       /\ form' = f
       /\ decrypted' = decrypt(env, IF f = "str" THEN Str(blob) ELSE Obj(blob))
  /\ pc' = "decrypted"
  /\ UNCHANGED <<env, startKey, concVars, appVars, plaintext, encKey, encrypted, blob, tampered, hookVars, objVars, postVars>>

\* the request is over
Done ==
  /\ pc = "decrypted"
  /\ pc' = "idle"
  /\ plaintext' = Undefined
  /\ encKey' = Undefined
  /\ encrypted' = NoCall
  /\ blob' = << >>
  /\ tampered' = "none"
  /\ form' = "str"
  /\ decrypted' = NoCall
  /\ UNCHANGED <<env, startKey, concVars, appVars, hookVars, objVars, postVars>>

Init == CryptoInit

Next ==
  \/ CallEncrypt
  \/ Tamper
  \/ Truncate
  \/ Restart
  \/ Reconfigure
  \/ CallDecrypt
  \/ Done

\* the encryption service called directly
Spec == Init /\ [][Next]_vars

\* ------------------------------------------- storage calls via the middleware
\* args.data of the create and update calls
Payloads ==
  { [firstName |-> Str(<<97>>), phone |-> Str(<<97, 97>>), jewishStatus |-> Str(<<98>>)],
    [firstName |-> Str(<<55357>>)],
    [firstName |-> Str(<<97>>), phone |-> Num(5)],
    [phone |-> Str(<< >>), phoneEncrypted |-> Str(<<1, 2>>), jewishStatus |-> Str(<<99>>)],
    [phone |-> Str(<<97>>)],
    [jewishStatus |-> Str(<<98>>)] }

HookInit ==
  /\ env \in {KeyA, KeyShort}
  /\ startKey = env
  /\ AppIdle
  /\ ConcIdle
  /\ CryptoIdle
  /\ HookIdle
  /\ ObjIdle
  /\ PostIdle

\* the state after a call of the middleware on params that went as m
Returned(params, m) ==
  /\ calls' = calls + 1
  /\ call' = params
  /\ passed' = m.passed
  /\ called' = m.called
  /\ raw' = m.raw
  /\ result' = m.result
  /\ encThrew' = m.threw
  /\ db' = IF params.model = "UserProfile" THEN m.db ELSE db
  /\ plain' = IF m.called /\ params.model = "UserProfile"
                THEN next(plain, params).db ELSE plain
  /\ response' = NoResponse
  /\ UNCHANGED <<env, startKey, concVars, appVars, cryptoVars, corrupted, objVars, users>>

\* one call of the middleware on params, with its random source in state r
\* and its faultAt-th encrypt call hitting a cipher-library fault (0: none)
Through(params, r, faultAt) ==
  /\ objOp = "none"
  /\ Returned(params, Middleware(env, db, params, r, faultAt))

\* prisma.userProfile.create({ data })
HookCreate ==
  /\ calls < MaxCalls
  /\ Len(db) < MaxRecords
  /\ \E data \in Payloads, faultAt \in {0, 2} :
       Through(Params("UserProfile", "create", 0, TRUE, data), 0, faultAt)

\* prisma.userProfile.update({ where: { id }, data })
HookUpdate ==
  /\ calls < MaxCalls
  /\ \E id \in 1..Len(db), data \in Payloads, faultAt \in {0, 2} :
       Through(Params("UserProfile", "update", id, TRUE, data), 0, faultAt)

\* prisma.userProfile.findUnique({ where: { id } })
HookFindUnique ==
  /\ calls < MaxCalls
  /\ \E id \in 1..MaxRecords :
       Through(Params("UserProfile", "findUnique", id, FALSE, EmptyObject), 0, 0)

\* prisma.userProfile.findFirst()
HookFindFirst ==
  /\ calls < MaxCalls
  /\ Through(Params("UserProfile", "findFirst", 0, FALSE, EmptyObject), 0, 0)

\* prisma.userProfile.findMany()
HookFindMany ==
  /\ calls < MaxCalls
  /\ Through(Params("UserProfile", "findMany", 0, FALSE, EmptyObject), 0, 0)

\* a blob of "a" under KeyA, as another table may hold one
BlobOfA == encrypt(KeyA, Str(<<97>>), Rep(0, saltLength), Rep(200, ivLength), FALSE).value

\* what the table of the model User may hold when a call reaches it; this
\* table is not kept in the state
OtherTables ==
  { << >>,
    <<[id |-> Num(1), firstName |-> Str(<<97>>), firstNameEncrypted |-> Str(BlobOfA)]>> }

\* data of a write on the model User
OtherPayloads ==
  { [firstName |-> Str(<<97>>), phone |-> Str(<<97, 97>>)],
    [phoneEncrypted |-> Str(BlobOfA)] }

\* a call the middleware has no branch for: another model (prisma.user.create,
\* prisma.user.findMany, prisma.user.findFirst), or an action of UserProfile
\* that is neither of its five (prisma.userProfile.findUniqueOrThrow)
HookOther ==
  /\ calls < MaxCalls
  /\ objOp = "none"
  /\ \/ \E id \in 1..MaxRecords :
          Through(Params("UserProfile", "findUniqueOrThrow", id, FALSE, EmptyObject), 0, 0)
     \/ \E table \in OtherTables, data \in OtherPayloads :
          Returned(Params("User", "create", 0, TRUE, data),
                   Middleware(env, table, Params("User", "create", 0, TRUE, data), 0, 0))
     \/ \E table \in OtherTables, action \in {"findMany", "findFirst"} :
          Returned(Params("User", action, 0, FALSE, EmptyObject),
                   Middleware(env, table, Params("User", action, 0, FALSE, EmptyObject), 0, 0))

\* a stored blob is damaged in the table: a bit of its tag flips
Corrupt ==
  /\ ~corrupted
  /\ calls < MaxCalls
  /\ \E id \in 1..Len(db), i \in 1..Len(sensitiveFields) :
       LET encryptedField == EncryptedField(sensitiveFields[i])
           value == Get(db[id], encryptedField)
       IN /\ IsString(value)
          /\ Len(FromBase64(value.v)) >= saltLength + ivLength + tagLength
          /\ db' = [db EXCEPT ![id] =
                      Put(@, encryptedField,
                          Str(ToBase64(FlipBit(FromBase64(value.v),
                                               saltLength + ivLength + 1, 0))))]
  /\ corrupted' = TRUE
  /\ UNCHANGED <<env, startKey, concVars, appVars, cryptoVars, plain, calls, call, passed, called,
                 raw, result, encThrew, objVars, postVars>>

\* ------------------------------------------ encryptObject / decryptObject
\* the object with the keys of firstName, phone, phoneEncrypted and other
\* that are given a value
MkObject(firstName, phone, phoneEncrypted, other) ==
  LET all == [firstName |-> firstName, phone |-> phone,
              phoneEncrypted |-> phoneEncrypted, other |-> other]
  IN [k \in {x \in DOMAIN all : all[x] # Undefined} |-> all[k]]

Objects ==
  { MkObject(fn, ph, pe, ot) :
      fn \in {Undefined, Str(<<97>>), Str(<<56832>>)},
      ph \in {Undefined, Str(<< >>), Str(<<97, 97>>), Num(5)},
      pe \in {Undefined, Str(<<1, 2>>), Num(5), Obj(BlobOfA)},
      ot \in {Undefined, Str(<<120>>)} }

FieldLists ==
  { << >>, <<"firstName">>, <<"phone">>, <<"firstName", "phone">>,
    <<"phone", "phoneEncrypted">>, <<"phoneEncrypted", "phone">> }

\* what encryptObject settled with, from the outcome of its loop
ObjectResult(loop) ==
  IF loop.threw THEN [ok |-> FALSE, value |-> EmptyObject]
  ELSE [ok |-> TRUE, value |-> loop.result]

\* encryptionService.encryptObject(obj, fields)
CallEncryptObject ==
  /\ objOp = "none"
  /\ calls = 0
  /\ \E obj \in Objects, fields \in FieldLists, r \in 0..(NumSalts - 1),
        faultAt \in {0, 2} :
       /\ objIn' = obj
       /\ objFields' = fields
       /\ objOut' = ObjectResult(encryptObject(env, obj, fields, r, faultAt))
  /\ objOp' = "encryptObject"
  /\ objSource' = EmptyObject
  /\ UNCHANGED <<env, startKey, concVars, appVars, cryptoVars, hookVars, postVars>>

\* encryptionService.decryptObject(obj, fields) on an object read back
CallDecryptObject ==
  /\ objOp = "none"
  /\ calls = 0
  /\ \E obj \in Objects, fields \in FieldLists :
       /\ objIn' = obj
       /\ objFields' = fields
       /\ objOut' = [ok |-> TRUE, value |-> decryptObject(env, obj, fields)]
  /\ objOp' = "decryptObject"
  /\ objSource' = EmptyObject
  /\ UNCHANGED <<env, startKey, concVars, appVars, cryptoVars, hookVars, postVars>>

\* encryptionService.decryptObject on what encryptObject returned, with the
\* same field list
CallDecryptEncrypted ==
  /\ objOp = "encryptObject"
  /\ objOut.ok
  /\ objSource' = objIn
  /\ objIn' = objOut.value
  /\ objOut' = [ok |-> TRUE, value |-> decryptObject(env, objOut.value, objFields)]
  /\ objOp' = "decryptEncrypted"
  /\ UNCHANGED <<env, startKey, concVars, appVars, cryptoVars, hookVars, objFields, postVars>>

\* the caller is done with the object
ObjectDone ==
  /\ objOp # "none"
  /\ objOp' = "none"
  /\ objIn' = EmptyObject
  /\ objFields' = << >>
  /\ objSource' = EmptyObject
  /\ objOut' = NoObject
  /\ UNCHANGED <<env, startKey, concVars, appVars, cryptoVars, hookVars, postVars>>

\* ------------------------------------------------- POST /api/auth/register
Bodies ==
  { [email |-> e, rest |-> ok, jewishStatus |-> Str(<<98>>), data |-> d] :
      e \in {0, 1, 2}, ok \in BOOLEAN,
      d \in { [firstName |-> Str(<<97>>), lastName |-> Str(<<98>>)],
              [firstName |-> Str(<<97>>), lastName |-> Str(<<98>>), phone |-> Str(<< >>)],
              [firstName |-> Str(<< >>), lastName |-> Str(<<98>>)] } }

\* the state after a POST that went as out
Responded(out) ==
  /\ response' = [status |-> out.status, valid |-> out.valid, encThrew |-> out.encThrew]
  /\ users' = out.users
  /\ db' = out.db
  /\ plain' = IF out.wrote
                THEN next(plain, Params("UserProfile", "create", 0, TRUE, out.profile)).db
                ELSE plain
  /\ calls' = calls + 1
  /\ call' = NoParams
  /\ passed' = NoParams
  /\ called' = FALSE
  /\ raw' = NoResult
  /\ result' = NoResult
  /\ encThrew' = FALSE
  /\ UNCHANGED <<env, startKey, concVars, appVars, cryptoVars, corrupted, objVars>>

\* a client posts a registration
Register ==
  /\ objOp = "none"
  /\ calls < MaxCalls
  /\ Len(db) < MaxRecords
  /\ \E body \in Bodies, faultAt \in {0, 2} :
       Responded(POST(env, users, db, body, 0, faultAt))

NextHook ==
  \/ HookCreate
  \/ HookUpdate
  \/ HookFindUnique
  \/ HookFindFirst
  \/ HookFindMany
  \/ HookOther
  \/ Corrupt
  \/ Register
  \/ CallEncryptObject
  \/ CallDecryptObject
  \/ CallDecryptEncrypted
  \/ ObjectDone

\* the UserProfile table used through the middleware
SpecHook == HookInit /\ [][NextHook]_vars

\* ------------------------------------------- requests running concurrently
\* Each request is a chain of promise continuations on the one event loop:
\* a step runs from one await to the next without interruption, and steps of
\* different requests interleave in any order.
Requests == 1..NumRequests

\* all requests' args.data being one object
DataRef_Shared(i) == 1

\* the object params.args.data of request i refers to: the caller of each
\* request builds its own
DataRef(i) == i

\* the fields from the first one on whose entry in obj (or whose Encrypted
\* counterpart's entry) is truthy: `if (params.args.data[field])`,
\* `if (item[encryptedField])`
RECURSIVE SkipFalsy(_, _, _)
SkipFalsy(obj, fields, counterpart) ==
  IF fields = << >> THEN << >>
  ELSE IF Truthy(Get(obj, IF counterpart THEN EncryptedField(Head(fields))
                          ELSE Head(fields)))
    THEN fields
  ELSE SkipFalsy(obj, Tail(fields), counterpart)

\* the synchronous part of an encrypt or decrypt call on arg: masterKey is
\* read and the call suspends at `await this.deriveKey`
Suspend(q, arg, rest) ==
  [q EXCEPT !.pc = "derive", !.key = env, !.arg = arg,
            !.field = Head(rest), !.fields = Tail(rest)]

\* the write loop from field fields[1] on, up to its next await
ContinueWrite(q, data, fields) ==
  IF SkipFalsy(data, fields, FALSE) = << >>
    THEN [q EXCEPT !.pc = "next", !.passed = data, !.fields = << >>]
    ELSE Suspend(q, data[Head(SkipFalsy(data, fields, FALSE))],
                 SkipFalsy(data, fields, FALSE))

\* the read loop from item at, field fields[1] on, up to its next await
RECURSIVE ContinueRead(_, _, _)
ContinueRead(q, at, fields) ==
  IF at > Len(q.result.items) THEN [q EXCEPT !.pc = "done", !.at = at]
  ELSE IF SkipFalsy(q.result.items[at], fields, TRUE) = << >>
    THEN ContinueRead(q, at + 1, sensitiveFields)
  ELSE [Suspend(q,
          q.result.items[at][EncryptedField(Head(SkipFalsy(q.result.items[at], fields, TRUE)))],
          SkipFalsy(q.result.items[at], fields, TRUE))
        EXCEPT !.at = at]

\* the objects and requests once request i has gone on as q
Goes(i, q) ==
  reqs' = [reqs EXCEPT ![i] =
             [q EXCEPT !.met = @ \/ \E j \in Requests \ {i} :
                                      reqs[j].pc \in {"derive", "next"}]]

ConcFrame ==
  UNCHANGED <<env, startKey, appVars, cryptoVars, plain, corrupted, calls, call, passed,
              called, raw, result, encThrew, objVars, postVars>>

\* a request calls encryptionService.encrypt(text)
BeginEncrypt(i) ==
  /\ reqs[i].pc = "idle"
  /\ \E text \in {Str(<<97>>), Num(5)}, r \in 0..1 :
       Goes(i, Suspend([NoRequest EXCEPT !.op = "encrypt", !.input = text, !.r = r],
                       text, <<"">>))
  /\ UNCHANGED <<heap, db>>
  /\ ConcFrame

\* a request calls encryptionService.decrypt(blob)
BeginDecrypt(i) ==
  /\ reqs[i].pc = "idle"
  /\ \E data \in {Str(BlobOfA), Str(<<1, 2>>)} :
       Goes(i, Suspend([NoRequest EXCEPT !.op = "decrypt", !.input = data],
                       data, <<"">>))
  /\ UNCHANGED <<heap, db>>
  /\ ConcFrame

\* a request calls prisma.userProfile.create({ data }): the middleware runs
\* up to its first await
BeginCreate(i) ==
  /\ reqs[i].pc = "idle"
  /\ Len(db) < MaxRecords
  /\ \E data \in {[firstName |-> Str(<<97>>), phone |-> Str(<<97, 97>>)],
                   [jewishStatus |-> Str(<<98>>)]} :
       /\ heap' = [heap EXCEPT ![DataRef(i)] = data]
       /\ Goes(i, ContinueWrite(
                    [NoRequest EXCEPT !.op = "hook",
                       !.params = Params("UserProfile", "create", 0, TRUE, data)],
                    data, sensitiveFields))
  /\ UNCHANGED db
  /\ ConcFrame

\* a request calls prisma.userProfile.findMany() or findUnique: the
\* middleware goes straight to `await next(params)`
BeginFind(i) ==
  /\ reqs[i].pc = "idle"
  /\ \E params \in {Params("UserProfile", "findMany", 0, FALSE, EmptyObject),
                     Params("UserProfile", "findUnique", 1, FALSE, EmptyObject)} :
       Goes(i, [NoRequest EXCEPT !.op = "hook", !.pc = "next", !.params = params])
  /\ UNCHANGED <<heap, db>>
  /\ ConcFrame

\* the write loop resumed with its encrypt call settled as e
WriteResumed(i, q, e) ==
  IF e.ok
    THEN /\ heap' = [heap EXCEPT ![DataRef(i)] =
                       Delete(Put(@, EncryptedField(q.field), Str(e.value)), q.field)]
         /\ Goes(i, ContinueWrite([q EXCEPT !.n = @ + 1], heap'[DataRef(i)], q.fields))
    ELSE /\ heap' = heap
         /\ Goes(i, [q EXCEPT !.pc = "done", !.n = @ + 1, !.threw = TRUE,
                              !.passed = heap[DataRef(i)],
                              !.result = Thrown(MsgEncrypt)])

\* the read loop resumed with its decrypt call settled as d
ReadResumed(i, q, d) ==
  /\ heap' = heap
  /\ Goes(i, ContinueRead(
               IF d.ok
                 THEN [q EXCEPT !.result.items[q.at] =
                         Delete(Put(@, q.field, Str(d.value)), EncryptedField(q.field))]
                 ELSE q,
               q.at, q.fields))

\* scrypt completes for request i: its encrypt or decrypt call runs to its
\* end and the caller goes on to its next await
Derived(i) ==
  /\ reqs[i].pc = "derive"
  /\ IF reqs[i].op = "encrypt"
       THEN /\ Goes(i, [reqs[i] EXCEPT !.pc = "done", !.n = 1,
                          !.settled = encrypt(reqs[i].key, reqs[i].arg,
                                        SaltDraw(reqs[i].r, 1), IvDraw(reqs[i].r, 1), FALSE)])
            /\ heap' = heap
     ELSE IF reqs[i].op = "decrypt"
       THEN /\ Goes(i, [reqs[i] EXCEPT !.pc = "done",
                          !.settled = decrypt(reqs[i].key, reqs[i].arg)])
            /\ heap' = heap
     ELSE IF reqs[i].at = 0
       THEN WriteResumed(i, reqs[i],
              encrypt(reqs[i].key, reqs[i].arg, SaltDraw(reqs[i].r, reqs[i].n + 1),
                      IvDraw(reqs[i].r, reqs[i].n + 1), FALSE))
     ELSE ReadResumed(i, reqs[i], decrypt(reqs[i].key, reqs[i].arg))
  /\ UNCHANGED db
  /\ ConcFrame

\* the request with the storage call's outcome out
AfterStored(q, out) ==
  IF IsRead(q.params)
    THEN ContinueRead([q EXCEPT !.store = db, !.result = out.result], 1, sensitiveFields)
    ELSE [q EXCEPT !.pc = "done", !.store = db, !.result = out.result]

\* the storage runs the call of request i and the middleware goes on from
\* `const result = await next(params)` to its next await
Stored(i) ==
  /\ reqs[i].pc = "next"
  /\ db' = next(db, [reqs[i].params EXCEPT !.data = reqs[i].passed]).db
  /\ Goes(i, AfterStored(reqs[i],
                next(db, [reqs[i].params EXCEPT !.data = reqs[i].passed])))
  /\ heap' = heap
  /\ ConcFrame

\* the caller of request i has its answer
Finish(i) ==
  /\ reqs[i].pc = "done"
  /\ reqs' = [reqs EXCEPT ![i] = NoRequest]
  /\ heap' = [heap EXCEPT ![DataRef(i)] = EmptyObject]
  /\ UNCHANGED db
  /\ ConcFrame

ConcInit == HookInit

NextConc ==
  \/ \E i \in Requests : BeginEncrypt(i)
  \/ \E i \in Requests : BeginDecrypt(i)
  \/ \E i \in Requests : BeginCreate(i)
  \/ \E i \in Requests : BeginFind(i)
  \/ \E i \in Requests : Derived(i)
  \/ \E i \in Requests : Stored(i)
  \/ \E i \in Requests : Finish(i)

\* requests from different callers in flight together
SpecConc == ConcInit /\ [][NextConc]_vars

\* ------------------------------------------------------------ the quiz
\* the rest of the model's state at rest, for the components' specifications
CoreIdle ==
  /\ env = KeyA
  /\ startKey = env
  /\ ConcIdle
  /\ CryptoIdle
  /\ HookIdle
  /\ ObjIdle
  /\ PostIdle

totalQuestions == Len(topic.questions)
\* topic.questions[i], undefined past the end
HasQuestion(i) == i + 1 \in 1..totalQuestions
isLastQuestion == state.currentQuestion = totalQuestions - 1
hasSelectedAnswer == state.currentQuestion \in DOMAIN state.selectedAnswers

\* which of the three views the component renders
View ==
  IF state.isCompleted /\ state.result # NoQuizResult THEN "result"
  ELSE IF ~HasQuestion(state.currentQuestion) THEN "error"
  ELSE "quiz"

\* question.answers.find(a => a.id === selectedAnswerId)?.isCorrect, selected
\* being state.selectedAnswers[index] ("" for undefined)
SelectedIsCorrect(question, selected) ==
  \E k \in 1..Len(question.answers) :
    /\ question.answers[k].id = selected
    /\ \A j \in 1..(k - 1) : question.answers[j].id # selected
    /\ question.answers[k].isCorrect

\* question.answers.find(a => a.isCorrect): its id, "" for undefined
CorrectAnswer(question) ==
  IF \E k \in 1..Len(question.answers) : question.answers[k].isCorrect
    THEN question.answers[CHOOSE k \in 1..Len(question.answers) :
           /\ question.answers[k].isCorrect
           /\ \A j \in 1..(k - 1) : ~question.answers[j].isCorrect].id
    ELSE ""

SelectedOf(selectedAnswers, index) ==
  IF index \in DOMAIN selectedAnswers THEN selectedAnswers[index] ELSE ""

\* score rounded down
Round_Down(num, den) == (100 * num) \div den

\* Math.round((num / den) * 100): the nearest integer, a half going up
Round(num, den) == (200 * num + den) \div (2 * den)

\* topic.questions.forEach((question, index) => ..) from index on
RECURSIVE CalculateLoop(_, _, _, _, _)
CalculateLoop(questions, selectedAnswers, index, correctAnswers, incorrectAnswers) ==
  IF index >= Len(questions)
    THEN [correctAnswers |-> correctAnswers, incorrectAnswers |-> incorrectAnswers]
  ELSE IF SelectedIsCorrect(questions[index + 1], SelectedOf(selectedAnswers, index))
    THEN CalculateLoop(questions, selectedAnswers, index + 1, correctAnswers + 1,
                       incorrectAnswers)
  ELSE CalculateLoop(questions, selectedAnswers, index + 1, correctAnswers,
         Append(incorrectAnswers,
           [question |-> index,
            selectedAnswer |-> SelectedOf(selectedAnswers, index),
            correctAnswer |-> CorrectAnswer(questions[index + 1])]))

\* the QuizResult made of the loop's counts
ResultOf(tp, st, counted) ==
  [score |-> Round(counted.correctAnswers, Len(tp.questions)),
   totalQuestions |-> Len(tp.questions),
   correctAnswers |-> counted.correctAnswers,
   incorrectAnswers |-> counted.incorrectAnswers,
   timeSpent |-> st.timeSpent,
   passed |-> Round(counted.correctAnswers, Len(tp.questions)) >= tp.requiredScore]

calculateResult(tp, st) ==
  ResultOf(tp, st, CalculateLoop(tp.questions, st.selectedAnswers, 0, 0, << >>))

QuizFrame == UNCHANGED <<coreVars, topic, transVars, uploadVars, authVars, newsVars, mailVars>>

\* the answer button's onClick: !state.showExplanation && selectAnswer(id)
selectAnswer ==
  /\ View = "quiz"
  /\ ~state.showExplanation
  /\ \E k \in 1..Len(topic.questions[state.currentQuestion + 1].answers) :
       state' = [state EXCEPT
         !.selectedAnswers =
            Put(@, state.currentQuestion,
                topic.questions[state.currentQuestion + 1].answers[k].id),
         !.showExplanation = TRUE]
  /\ UNCHANGED submit
  /\ QuizFrame

\* the Siguiente button never disabled
nextQuestion_NeverDisabled ==
  /\ View = "quiz"
  /\ ~isLastQuestion
  /\ state.currentQuestion < totalQuestions - 1
  /\ state' = [state EXCEPT !.currentQuestion = @ + 1, !.showExplanation = FALSE]
  /\ UNCHANGED submit
  /\ QuizFrame

\* the Siguiente button, shown when not on the last question and disabled
\* without a selected answer
nextQuestion ==
  /\ View = "quiz"
  /\ ~isLastQuestion
  /\ hasSelectedAnswer
  /\ state.currentQuestion < totalQuestions - 1
  /\ state' = [state EXCEPT !.currentQuestion = @ + 1, !.showExplanation = FALSE]
  /\ UNCHANGED submit
  /\ QuizFrame

\* the Anterior button, disabled on the first question
prevQuestion ==
  /\ View = "quiz"
  /\ state.currentQuestion # 0
  /\ state.currentQuestion > 0
  /\ state' = [state EXCEPT
       !.currentQuestion = @ - 1,
       !.showExplanation =
          SelectedOf(state.selectedAnswers, state.currentQuestion - 1) # ""]
  /\ UNCHANGED submit
  /\ QuizFrame

\* the Finalizar button, shown on the last question and disabled without a
\* selected answer: the result is computed and shown, then submitted
finishQuiz ==
  /\ View = "quiz"
  /\ isLastQuestion
  /\ hasSelectedAnswer
  /\ state' = [state EXCEPT !.isCompleted = TRUE,
                            !.result = calculateResult(topic, state)]
  /\ submit' = "pending"
  /\ QuizFrame

\* the submission is answered: onComplete(result), or the error notification
Submitted ==
  /\ submit = "pending"
  /\ \E outcome \in {"ok", "failed"} : submit' = outcome
  /\ UNCHANGED state
  /\ QuizFrame

\* the results view's restart button
restartQuiz ==
  /\ View = "result"
  /\ state' = InitialQuizState
  /\ UNCHANGED submit
  /\ QuizFrame

\* the interval timer's callback
Tick ==
  /\ state.timeSpent < MaxTime
  /\ state' = [state EXCEPT !.timeSpent = @ + 1]
  /\ UNCHANGED submit
  /\ QuizFrame

QuizInit ==
  /\ CoreIdle
  /\ TransIdle
  /\ UploadIdle
  /\ AuthIdle
  /\ NewsIdle
  /\ MailIdle
  /\ topic \in Topics
  /\ QuizMounted

NextQuiz ==
  \/ selectAnswer
  \/ nextQuestion
  \/ prevQuestion
  \/ finishQuiz
  \/ Submitted
  \/ restartQuiz
  \/ Tick

\* the quiz component mounted on a topic
SpecQuiz == QuizInit /\ [][NextQuiz]_vars

\* ------------------------------------------------------- TranslationService
\* the translation cache lives 24 hours; the clock counts days
cacheTimeout == 1

\* \s of a regular expression, among the code units used
IsSpace(u) == u \in {9, 10, 13, 32}

\* replace(/\s+/g, ' '): every run of white space becomes one space. The
\* positions kept are those that do not continue a run.
NormalizeSpaces(s) ==
  LET StartsRun(i) == ~(IsSpace(s[i]) /\ i > 1 /\ IsSpace(s[i - 1]))
      kept == SelectSeq([i \in 1..Len(s) |-> i], StartsRun)
  IN [k \in 1..Len(kept) |-> IF IsSpace(s[kept[k]]) THEN 32 ELSE s[kept[k]]]

\* String.prototype.trim: from the first to the last code unit that is not
\* white space
Trim(s) ==
  LET solid == {i \in 1..Len(s) : ~IsSpace(s[i])}
  IN IF solid = {} THEN << >>
     ELSE SubSeq(s, CHOOSE i \in solid : \A j \in solid : i <= j,
                    CHOOSE i \in solid : \A j \in solid : i >= j)

\* Buffer.from(content): the UTF-8 bytes of a string of any length, encoded
\* piece by piece, no piece ending inside a surrogate pair
RECURSIVE BufferFrom(_)
BufferFrom(s) ==
  IF Len(s) <= 16 THEN Utf8Encode(s)
  ELSE IF IsHigh(s[16])
    THEN Utf8Encode(SubSeq(s, 1, 15)) \o BufferFrom(SubSeq(s, 16, Len(s)))
  ELSE Utf8Encode(SubSeq(s, 1, 16)) \o BufferFrom(SubSeq(s, 17, Len(s)))

cleanText(text) == Subarray(Trim(NormalizeSpaces(text)), 0, 5000)

\* the key made of the whole text
getCacheKey_WholeText(text, fromLang, toLang) ==
  ToBase64(BufferFrom(text \o <<45>> \o fromLang \o <<45>> \o toLang))

\* `${text.substring(0, 100)}-${fromLang}-${toLang}` in base64
getCacheKey(text, fromLang, toLang) ==
  ToBase64(BufferFrom(Subarray(text, 0, 100) \o <<45>> \o fromLang \o <<45>> \o toLang))

\* getCachedTranslation: the cache after the lookup (an expired entry is
\* deleted) and the translation found, << >> for null
Expired(entry, time) == time - entry.timestamp > cacheTimeout
CacheAfterLookup(c, cacheKey, time) ==
  IF cacheKey \in DOMAIN c /\ Expired(c[cacheKey], time) THEN Delete(c, cacheKey) ELSE c
getCachedTranslation(c, cacheKey, time) ==
  IF cacheKey \in DOMAIN c /\ ~Expired(c[cacheKey], time)
    THEN c[cacheKey].translation ELSE << >>

\* setCachedTranslation; of is the request the translation was produced for
setCachedTranslation(c, cacheKey, translation, confidence, time, of) ==
  Put(c, cacheKey, [translation |-> translation, timestamp |-> time,
                    confidence |-> confidence, of |-> of])

\* what a provider returns for text: its own rendering of it ('D' or 'G',
\* then the text)
Rendering(by, text) == (IF by = "deepl" THEN <<68>> ELSE <<71>>) \o text

\* Google asked first, DeepL as the fallback
Providers_GoogleFirst(prov, translator) ==
  IF prov = "deepl" /\ translator THEN <<"google", "deepl">> ELSE <<"google">>

\* the providers translate tries, in order
Providers(prov, translator) ==
  IF prov = "deepl" /\ translator THEN <<"deepl", "google">> ELSE <<"google">>

\* the try block of translate: fails says which providers throw. tried are
\* the providers called, by the one that answered ("" when none did)
RECURSIVE TryProviders(_, _, _)
TryProviders(order, fails, tried) ==
  IF order = << >> THEN [by |-> "", tried |-> tried]
  ELSE IF Head(order) \in fails
    THEN TryProviders(Tail(order), fails, Append(tried, Head(order)))
  ELSE [by |-> Head(order), tried |-> Append(tried, Head(order))]

Answer(text, lang, confidence) ==
  [NoTranslation EXCEPT !.translatedText = text, !.detectedLanguage = lang,
                        !.confidence = confidence]

\* translate once the cache has missed, went being how the providers went
Translated(c, request, cleanedText, cacheKey, time, went) ==
  IF went.by = ""
    THEN [cache |-> c,
          response |-> [Answer(request.text, request.fromLanguage, 0)
                          EXCEPT !.tried = went.tried]]
    ELSE [cache |-> setCachedTranslation(c, cacheKey, Rendering(went.by, cleanedText),
                      IF went.by = "deepl" THEN 95 ELSE 85, time,
                      [text |-> cleanedText, fromLanguage |-> request.fromLanguage,
                       toLanguage |-> request.toLanguage]),
          response |-> [Answer(Rendering(went.by, cleanedText), request.fromLanguage,
                               IF went.by = "deepl" THEN 95 ELSE 85)
                          EXCEPT !.tried = went.tried, !.stored = TRUE]]

\* translate from the cache lookup on
Looked(c, request, cleanedText, cacheKey, time, prov, translator, fails) ==
  IF getCachedTranslation(c, cacheKey, time) # << >>
    THEN [cache |-> c,
          response |-> [Answer(c[cacheKey].translation, request.fromLanguage, 90)
                          EXCEPT !.hit = TRUE, !.of = c[cacheKey].of]]
    ELSE Translated(CacheAfterLookup(c, cacheKey, time), request, cleanedText,
                    cacheKey, time,
                    TryProviders(Providers(prov, translator), fails, << >>))

\* async translate(request): confidences are in hundredths
translate(c, request, time, prov, translator, fails) ==
  IF Trim(request.text) = << >>
    THEN [cache |-> c, response |-> Answer(<< >>, request.fromLanguage, 100)]
  ELSE IF request.fromLanguage = request.toLanguage
    THEN [cache |-> c, response |-> Answer(request.text, request.fromLanguage, 100)]
  ELSE Looked(c, request, cleanText(request.text),
              getCacheKey(cleanText(request.text), request.fromLanguage,
                          request.toLanguage),
              time, prov, translator, fails)

\* the language codes "en", "es", "he"
En == <<101, 110>>
Es == <<101, 115>>
He == <<104, 101>>

\* the texts asked for: two that differ after their 100th character, a short
\* one with and without white space around it, and a blank one
LongText(last) == Rep(97, 100) \o <<last>>
TranslationRequests ==
  { [text |-> t, fromLanguage |-> En, toLanguage |-> Es] :
      t \in {LongText(98), LongText(99), <<97>>, <<32, 97, 10>>, <<32>>} }
  \cup { [text |-> <<97>>, fromLanguage |-> l, toLanguage |-> Es] : l \in {He, Es} }

TransFrame == UNCHANGED <<coreVars, quizVars, uploadVars, authVars, newsVars, mailVars>>

\* translationService.translate(request)
Translate ==
  /\ translations < MaxTranslations
  /\ \E request \in TranslationRequests, fails \in SUBSET {"deepl", "google"} :
       /\ lastRequest' = request
       /\ \E out \in {translate(cache, request, now, provider, deeplTranslator, fails)} :
            /\ cache' = out.cache
            /\ lastResponse' = out.response
  /\ translations' = translations + 1
  /\ UNCHANGED <<provider, deeplTranslator, now>>
  /\ TransFrame

\* a day passes
DayPasses ==
  /\ now < MaxDays
  /\ now' = now + 1
  /\ UNCHANGED <<provider, deeplTranslator, cache, translations, lastRequest,
                 lastResponse>>
  /\ TransFrame

\* new TranslationService(): TRANSLATION_PROVIDER defaults to 'deepl', and
\* without DEEPL_API_KEY the provider becomes 'google'
TransInit ==
  /\ CoreIdle
  /\ QuizIdle
  /\ UploadIdle
  /\ AuthIdle
  /\ NewsIdle
  /\ MailIdle
  /\ \E envProvider \in {"", "deepl", "google"}, apiKey \in BOOLEAN :
       /\ deeplTranslator = ((envProvider # "google") /\ apiKey)
       /\ provider = IF envProvider # "google" /\ apiKey THEN "deepl" ELSE "google"
  /\ cache = EmptyObject
  /\ now = 0
  /\ translations = 0
  /\ lastRequest = NoTranslationRequest
  /\ lastResponse = NoTranslation

NextTrans ==
  \/ Translate
  \/ DayPasses

\* the translation service and its cache
SpecTrans == TransInit /\ [][NextTrans]_vars

\* ------------------------------------------------------------- FileUpload
\* the maxFiles prop the component is used with
maxFiles == 2

\* a FileWithProgress: file is the File (its number), url the url the server
\* gave (that of file f being f; 0: none)
Uploading(f) == [file |-> f, progress |-> 0, status |-> "uploading", url |-> 0]

\* prev.map((f, i) => i === index ? change(f) : f), indices counting from 0
updateProgress(list, index, progress) ==
  [i \in 1..Len(list) |->
     IF i - 1 = index THEN [list[i] EXCEPT !.progress = progress] ELSE list[i]]

\* the update keyed by the File instead of the index
MarkCompleted_ByFile(list, index, f) ==
  [i \in 1..Len(list) |->
     IF list[i].file = f
       THEN [list[i] EXCEPT !.progress = 100, !.status = "completed", !.url = f]
       ELSE list[i]]

\* updateProgress(100), then status 'completed' with the url of the upload
MarkCompleted(list, index, f) ==
  [i \in 1..Len(list) |->
     IF i - 1 = index
       THEN [list[i] EXCEPT !.progress = 100, !.status = "completed", !.url = f]
       ELSE list[i]]

\* the catch block: status 'error', progress 0
MarkError(list, index) ==
  [i \in 1..Len(list) |->
     IF i - 1 = index THEN [list[i] EXCEPT !.progress = 0, !.status = "error"]
     ELSE list[i]]

\* prev.filter((_, i) => i !== index)
Without(list, index) ==
  [i \in 1..(Len(list) - 1) |-> IF i - 1 < index THEN list[i] ELSE list[i + 1]]

UploadFrame == UNCHANGED <<coreVars, quizVars, transVars, authVars, newsVars, mailVars>>

\* onDrop(acceptedFiles): count files are dropped, those in invalid failing
\* the size or type test; newFiles are appended and their uploads begin,
\* newFiles[i] at index i + files.length
onDrop ==
  /\ \E count \in 1..2, invalid \in SUBSET {2} :
       /\ dropped + count <= NumFiles
       /\ dropped' = dropped + count
       /\ IF Len(files) + count > maxFiles
            THEN UNCHANGED <<files, chains>>
            ELSE \E newFiles \in {SelectSeq([i \in 1..count |-> dropped + i],
                                            LAMBDA f : (f - dropped) \notin invalid)} :
                   /\ files' = files \o [i \in 1..Len(newFiles) |-> Uploading(newFiles[i])]
                   /\ chains' = IF newFiles = << >> THEN chains
                                 ELSE Append(chains,
                                        [newFiles |-> newFiles, base |-> Len(files),
                                         i |-> 0, progress |-> 0])
  /\ updating' = 0
  /\ UploadFrame

\* the chain with its upload of newFiles[i] over: the loop of onDrop goes on
\* to the next file, or the call ends
Advanced(c) ==
  IF chains[c].i + 1 < Len(chains[c].newFiles)
    THEN [chains EXCEPT ![c].i = @ + 1, ![c].progress = 0]
    ELSE [k \in 1..(Len(chains) - 1) |-> IF k < c THEN chains[k] ELSE chains[k + 1]]

\* uploadFile's progress loop: updateProgress(progress), then 100 ms pass
ProgressStep ==
  /\ \E c \in 1..Len(chains) :
       /\ chains[c].progress <= 90
       /\ files' = updateProgress(files, chains[c].base + chains[c].i, chains[c].progress)
       /\ chains' = [chains EXCEPT ![c].progress = @ + 10]
       /\ updating' = chains[c].newFiles[chains[c].i + 1]
  /\ UNCHANGED dropped
  /\ UploadFrame

\* fetch('/api/upload') answers ok: the entry is completed
UploadCompleted ==
  /\ \E c \in 1..Len(chains) :
       /\ chains[c].progress > 90
       /\ files' = MarkCompleted(files, chains[c].base + chains[c].i,
                                  chains[c].newFiles[chains[c].i + 1])
       /\ chains' = Advanced(c)
       /\ updating' = chains[c].newFiles[chains[c].i + 1]
  /\ UNCHANGED dropped
  /\ UploadFrame

\* fetch('/api/upload') fails or answers not ok: the catch block
UploadFailed ==
  /\ \E c \in 1..Len(chains) :
       /\ chains[c].progress > 90
       /\ files' = MarkError(files, chains[c].base + chains[c].i)
       /\ chains' = Advanced(c)
       /\ updating' = chains[c].newFiles[chains[c].i + 1]
  /\ UNCHANGED dropped
  /\ UploadFrame

\* the remove button of entry index
removeFile ==
  /\ \E index \in 0..(Len(files) - 1) : files' = Without(files, index)
  /\ updating' = 0
  /\ UNCHANGED <<chains, dropped>>
  /\ UploadFrame

UploadInit ==
  /\ CoreIdle
  /\ QuizIdle
  /\ TransIdle
  /\ UploadIdle
  /\ AuthIdle
  /\ NewsIdle
  /\ MailIdle

NextUpload ==
  \/ onDrop
  \/ ProgressStep
  \/ UploadCompleted
  \/ UploadFailed
  \/ removeFile

\* the file upload component
SpecUpload == UploadInit /\ [][NextUpload]_vars

\* ----------------------------------------------------------- AuthProvider
\* the accounts: 1 is an administrator with a profile, 2 a moderator
\* without one, 3 a plain user with one
RoleOf(id) == IF id = 1 THEN "ADMIN" ELSE IF id = 2 THEN "MODERATOR" ELSE "USER"

\* session.user: the account as the session carries it, without its profile
SessionUser(id) == [id |-> id, role |-> RoleOf(id), profile |-> FALSE, full |-> FALSE]

\* the body of GET /api/users/:id
UserData(id) == [id |-> id, role |-> RoleOf(id), profile |-> id # 2, full |-> TRUE]

isAuthenticated == session # 0
isAdmin == user.role = "ADMIN" \/ user.role = "SUPER_ADMIN"
isModerator == user.role = "MODERATOR" \/ isAdmin
hasProfile == user.profile

AuthFrame == UNCHANGED <<coreVars, quizVars, transVars, uploadVars, newsVars, mailVars>>

\* next-auth: a session starts
SignIn ==
  /\ session = 0
  /\ sessions < MaxSessions
  /\ \E id \in 1..NumAccounts : session' = id
  /\ sessions' = sessions + 1
  /\ effectDue' = TRUE
  /\ UNCHANGED <<user, fetching>>
  /\ AuthFrame

\* next-auth: the session ends
SignOut ==
  /\ session # 0
  /\ session' = 0
  /\ effectDue' = TRUE
  /\ UNCHANGED <<user, fetching, sessions>>
  /\ AuthFrame

\* useEffect(.., [session]): with a session user, setUser(session.user) and
\* refreshUser() sends its request; without one, setUser(null)
SessionEffect ==
  /\ effectDue
  /\ effectDue' = FALSE
  /\ IF session # 0
       THEN user' = SessionUser(session) /\ fetching' = fetching \cup {session}
       ELSE user' = NoUser /\ UNCHANGED fetching
  /\ UNCHANGED <<session, sessions>>
  /\ AuthFrame

\* a consumer of the context calls refreshUser()
refreshUser ==
  /\ session # 0
  /\ session \notin fetching
  /\ fetching' = fetching \cup {session}
  /\ UNCHANGED <<session, user, effectDue, sessions>>
  /\ AuthFrame

\* refreshUser after its await: if (response.ok) setUser(userData)
UserAfterAnswer(id, ok) == IF ok THEN UserData(id) ELSE user

\* the request of refreshUser for id is answered, ok or not
RefreshAnswered ==
  /\ \E id \in fetching, ok \in BOOLEAN :
       /\ user' = UserAfterAnswer(id, ok)
       /\ fetching' = fetching \ {id}
  /\ UNCHANGED <<session, effectDue, sessions>>
  /\ AuthFrame

AuthInit ==
  /\ CoreIdle
  /\ QuizIdle
  /\ TransIdle
  /\ UploadIdle
  /\ AuthIdle
  /\ NewsIdle
  /\ MailIdle

NextAuth ==
  \/ SignIn
  \/ SignOut
  \/ SessionEffect
  \/ refreshUser
  \/ RefreshAnswered

\* the auth provider under next-auth's session
SpecAuth == AuthInit /\ [][NextAuth]_vars

\* --------------------------------------------------------- NewsAggregator
\* what processRSSFeed returns: the feed's articles (their URLs), none when
\* the feed could not be read
Feeds == {<< >>, <<1>>, <<1, 1>>, <<1, 2>>, <<2, 1>>}

\* no index on Article.url
UrlTaken_NoIndex(table, url) == FALSE

\* the unique index on Article.url that `findUnique({ where: { url } })`
\* relies on: a create of a url the table holds is rejected
UrlTaken(table, url) == \E k \in 1..Len(table) : table[k].url = url

\* articleExists(url): !!existing, and false when the lookup failed
articleExists(table, url, failed) ==
  IF failed THEN FALSE ELSE \E k \in 1..Len(table) : table[k].url = url

NewsFrame == UNCHANGED <<coreVars, quizVars, transVars, uploadVars, authVars, mailVars>>

\* the run with the source of its loop over: on to the next source, or the
\* call returns
NextSource(run) ==
  IF run.source < NumSources
    THEN [NoRun EXCEPT !.pc = "findSource", !.source = run.source + 1]
    ELSE NoRun

\* saveArticles from article i on, up to its next await: the loop's end
\* leads to the update of the source and to the next source
NextArticle(run, i) ==
  IF i > Len(run.feed) THEN NextSource(run)
  ELSE [run EXCEPT !.pc = "exists", !.i = i]

\* updateAllSources() is called
updateAllSources(r) ==
  /\ runs[r].pc = "idle"
  /\ runs' = [runs EXCEPT ![r] = [NoRun EXCEPT !.pc = "findSource", !.source = 1]]
  /\ UNCHANGED <<articles, newsSources, rejected>>
  /\ NewsFrame

\* prisma.newsSource.findUnique answers
SourceFound(r) ==
  /\ runs[r].pc = "findSource"
  /\ runs' = [runs EXCEPT ![r].pc =
                IF runs[r].source \in newsSources THEN "feed" ELSE "createSource"]
  /\ UNCHANGED <<articles, newsSources, rejected>>
  /\ NewsFrame

\* prisma.newsSource.create answers: a name stored meanwhile is rejected and
\* the catch block of the source's iteration gives the source up
SourceCreated(r) ==
  /\ runs[r].pc = "createSource"
  /\ IF runs[r].source \in newsSources
       THEN /\ runs' = [runs EXCEPT ![r] = NextSource(runs[r])]
            /\ UNCHANGED newsSources
       ELSE /\ runs' = [runs EXCEPT ![r].pc = "feed"]
            /\ newsSources' = newsSources \cup {runs[r].source}
  /\ UNCHANGED <<articles, rejected>>
  /\ NewsFrame

\* processRSSFeed answers and saveArticles begins
FeedRead(r) ==
  /\ runs[r].pc = "feed"
  /\ \E feed \in Feeds :
       runs' = [runs EXCEPT ![r] = NextArticle([runs[r] EXCEPT !.feed = feed], 1)]
  /\ UNCHANGED <<articles, newsSources, rejected>>
  /\ NewsFrame

\* articleExists answers: `continue` when the url is stored, else the
\* translation and the create are on their way
Checked(r) ==
  /\ runs[r].pc = "exists"
  /\ \E failed \in BOOLEAN :
       runs' = [runs EXCEPT ![r] =
                 IF articleExists(articles, runs[r].feed[runs[r].i], failed)
                   THEN NextArticle(runs[r], runs[r].i + 1)
                   ELSE [runs[r] EXCEPT !.pc = "create"]]
  /\ UNCHANGED <<articles, newsSources, rejected>>
  /\ NewsFrame

\* prisma.article.create answers: the article is stored and counted, or the
\* storage rejects it and the catch block logs the error
Created(r) ==
  /\ runs[r].pc = "create"
  /\ IF UrlTaken(articles, runs[r].feed[runs[r].i])
       THEN /\ runs' = [runs EXCEPT ![r] = NextArticle(runs[r], runs[r].i + 1)]
            /\ rejected' = 1
            /\ UNCHANGED articles
       ELSE /\ runs' = [runs EXCEPT ![r] =
                 NextArticle([runs[r] EXCEPT !.savedCount = @ + 1], runs[r].i + 1)]
            /\ articles' = Append(articles, [url |-> runs[r].feed[runs[r].i],
                                             sourceId |-> runs[r].source])
            /\ UNCHANGED rejected
  /\ UNCHANGED newsSources
  /\ NewsFrame

NewsInit ==
  /\ CoreIdle
  /\ QuizIdle
  /\ TransIdle
  /\ UploadIdle
  /\ AuthIdle
  /\ NewsIdle
  /\ MailIdle

NextNews ==
  \/ \E r \in 1..NumRuns : updateAllSources(r)
  \/ \E r \in 1..NumRuns : SourceFound(r)
  \/ \E r \in 1..NumRuns : SourceCreated(r)
  \/ \E r \in 1..NumRuns : FeedRead(r)
  \/ \E r \in 1..NumRuns : Checked(r)
  \/ \E r \in 1..NumRuns : Created(r)

\* news updates, one after another or two at a time
SpecNews == NewsInit /\ [][NextNews]_vars

\* ----------------------------------------------------------- EmailService
Addresses == 1..NumAddresses

\* data.to: one address, or an array of addresses
Recipients ==
  [isArray : {FALSE}, items : {<<a>> : a \in Addresses}]
  \cup [isArray : {TRUE},
        items : UNION {[1..n -> Addresses] : n \in 0..MaxRecipients}]

\* the keys of data.variables: a plain name, and a key that is no regular
\* expression when put between braces
VariableKeys == {"name", "("}

\* Array.isArray(data.to) ? data.to : [data.to]
AsArray(to) == IF to.isArray THEN to.items ELSE <<to.items[1]>>

\* replaceVariables throws when `new RegExp` rejects a key
ReplaceThrows(keys) == "(" \in keys

\* the loop goes on after every recipient
Stops_Never(success) == FALSE

\* if (!success) return false
Stops(success) == ~success

MailFrame == UNCHANGED <<coreVars, quizVars, transVars, uploadVars, authVars, newsVars>>

\* the call returns
Return(m, answer) == [m EXCEPT !.pc = "returned", !.result = answer]

\* the loop at recipient i, up to its first await: getTemplate, or
\* `return true` after the last recipient
AtRecipient(m, i) ==
  IF i > Len(m.recipients) THEN Return(m, TRUE)
  ELSE [m EXCEPT !.pc = "template", !.i = i]

\* sendEmail(data) is called
sendEmail(to, keys) ==
  /\ mail.pc = "idle"
  /\ mail' = AtRecipient([NoMail EXCEPT !.recipients = AsArray(to),
                                        !.variables = keys], 1)
  /\ UNCHANGED <<config, emailLog, attempts>>
  /\ MailFrame

\* getTemplate answers (a template of the database or the default one), the
\* variables are replaced, and the message is handed to the provider; an
\* exception of replaceVariables leads to the catch block's `return false`
TemplateRead ==
  /\ mail.pc = "template"
  /\ mail' = IF ReplaceThrows(mail.variables) THEN Return(mail, FALSE)
             ELSE [mail EXCEPT !.pc = "send"]
  /\ UNCHANGED <<config, emailLog, attempts>>
  /\ MailFrame

\* sendWithSES or sendWithSMTP answers: true, or false after an error of the
\* transport; logEmail begins
Sent(success) ==
  /\ mail.pc = "send"
  /\ attempts' = Append(attempts, [to |-> mail.recipients[mail.i],
                                   via |-> config.provider,
                                   success |-> success])
  /\ mail' = [mail EXCEPT !.pc = "log", !.success = success]
  /\ UNCHANGED <<config, emailLog>>
  /\ MailFrame

\* prisma.emailLog.create answers: the entry is written, or the error is
\* logged to the console and logEmail returns all the same; then the loop
\* stops or goes on
Logged(written) ==
  /\ mail.pc = "log"
  /\ emailLog' = IF written
                   THEN Append(emailLog,
                          [toEmail |-> mail.recipients[mail.i],
                           status |-> IF mail.success THEN "SENT" ELSE "FAILED",
                           attempt |-> Len(attempts)])
                   ELSE emailLog
  /\ mail' = IF Stops(mail.success) THEN Return(mail, FALSE)
             ELSE AtRecipient(mail, mail.i + 1)
  /\ UNCHANGED <<config, attempts>>
  /\ MailFrame

MailInit ==
  /\ CoreIdle
  /\ QuizIdle
  /\ TransIdle
  /\ UploadIdle
  /\ AuthIdle
  /\ NewsIdle
  /\ config \in [provider : {"ses", "smtp"}]
  /\ mail = NoMail
  /\ emailLog = << >>
  /\ attempts = << >>

NextMail ==
  \/ \E to \in Recipients, keys \in SUBSET VariableKeys : sendEmail(to, keys)
  \/ TemplateRead
  \/ \E success \in BOOLEAN : Sent(success)
  \/ \E written \in BOOLEAN : Logged(written)

\* one sendEmail call
SpecMail == MailInit /\ [][NextMail]_vars

\* ================================================================= claims
\* ---------------------------------------------------------------- C1
ShortKey(k) == k.t # "str" \/ Len(k.v) < MinMasterKeyLength

\* the blob of a successful encrypt was decrypted untouched under the same key
RoundTripDone ==
  /\ pc = "decrypted"
  /\ encrypted.ok
  /\ tampered = "none"
  /\ env = encKey

\* C1 as stated: for every non-empty string s and a fixed master key of at
\* least 32 characters, decrypt of the blob encrypt(s) returned gives exactly
\* s, for the base64 string and for the EncryptedData object.
C1_RoundTripEveryString ==
  (RoundTripDone /\ plaintext.v # << >>)
    => (decrypted.ok /\ decrypted.value = plaintext.v)

\* C1 amended: the round trip returns exactly s for every non-empty string s
\* that has no unpaired surrogate; an unpaired surrogate comes back as U+FFFD.
C1_RoundTripWellFormed ==
  (RoundTripDone /\ plaintext.v # << >>)
    => /\ decrypted.ok
       /\ WellFormed(plaintext.v) => decrypted.value = plaintext.v
       /\ decrypted.value = Utf8Decode(Utf8Encode(plaintext.v))

C1_Witness ==
  /\ RoundTripDone
  /\ form = "obj"
  /\ plaintext.v = <<97, 55357, 56832>> \/ plaintext.v = <<55357, 56832>>
  /\ decrypted.value = plaintext.v

\* ---------------------------------------------------------------- C2
\* C2: a flipped bit in the ciphertext or tag region of a blob makes decrypt
\* fail with AuthenticationError, and decrypt never returns another plaintext
\* than the one encrypted.
C2_TamperAuthenticationError ==
  (pc = "decrypted" /\ tampered # "none")
    => (~decrypted.ok /\ decrypted.name = "AuthenticationError")

\* what the code does keep of C2: the tampered blob is rejected, no plaintext
C2_TamperRejected ==
  (pc = "decrypted" /\ tampered # "none")
    => (~decrypted.ok /\ decrypted.value = << >>)

\* ---------------------------------------------------------------- C3
\* C3: with a master key shorter than 32 characters encrypt and decrypt fail
\* with ConfigurationError, before any key derivation or cipher operation.
C3_ShortKeyConfigurationError ==
  /\ (encrypted # NoCall /\ ShortKey(encKey))
       => /\ ~encrypted.ok
          /\ encrypted.name = "ConfigurationError"
          /\ encrypted.kdf = 0 /\ encrypted.cipher = 0
  /\ (pc = "decrypted" /\ ShortKey(env))
       => /\ ~decrypted.ok
          /\ decrypted.name = "ConfigurationError"
          /\ decrypted.kdf = 0 /\ decrypted.cipher = 0

\* the part of C3 that does not rest on the error's name, for decrypt alone
C3_DecryptShortKeyNoCipher ==
  (pc = "decrypted" /\ ShortKey(env))
    => (~decrypted.ok /\ decrypted.kdf = 0 /\ decrypted.cipher = 0)

\* ---------------------------------------------------------------- C8
\* C8: decrypt reports a tag-verification failure as AuthenticationError and
\* a missing master key as ConfigurationError, so the error tells a caller
\* "this field cannot be read" from "the system is misconfigured".
C8_ErrorKindsDistinct ==
  (pc = "decrypted" /\ ~decrypted.ok)
    => /\ env = Undefined => decrypted.name = "ConfigurationError"
       /\ Truthy(env) => decrypted.name = "AuthenticationError"
       /\ Truthy(env) =>
            LET missing == decrypt(Undefined, Str(blob))
            IN <<decrypted.name, decrypted.message>>
                 # <<missing.name, missing.message>>

\* ------------------------------------------------- claims on the middleware
Sensitive == {sensitiveFields[i] : i \in 1..Len(sensitiveFields)}

\* the settled decrypt d resolved with the string s
ResolvedWith(d, s) == d.ok /\ d.value = s

\* what a string is after the 'utf8' round trip of encrypt and decrypt
Utf8RoundTrip(s) == Utf8Decode(Utf8Encode(s))

\* ---------------------------------------------------------------- C4
\* C4 as stated: no payload handed to storage by a create or update holds a
\* sensitive field in plaintext: every sensitive field of the caller's
\* payload was replaced by its Encrypted counterpart, and no payload holds
\* both the field and its counterpart.
C4_NoSensitiveKeyReachesStorage ==
  (called /\ IsWrite(call)) =>
    \A f \in Sensitive :
      /\ f \notin DOMAIN passed.data
      /\ f \in DOMAIN call.data => EncryptedField(f) \in DOMAIN passed.data
      /\ ~(f \in DOMAIN passed.data /\ EncryptedField(f) \in DOMAIN passed.data)

\* C4 amended: every sensitive field that holds a truthy value (a non-empty
\* string) in the caller's payload is replaced by its Encrypted counterpart,
\* holding a blob of that value, before the storage call; a sensitive field
\* left in the payload handed to storage holds an empty string or null, as
\* the caller gave it.
C4_TruthyFieldsReplaced ==
  (called /\ IsWrite(call)) =>
    \A f \in Sensitive :
      /\ f \in DOMAIN passed.data =>
           (~Truthy(passed.data[f]) /\ passed.data[f] = Get(call.data, f))
      /\ Truthy(Get(call.data, f)) =>
           /\ f \notin DOMAIN passed.data
           /\ ResolvedWith(decrypt(env, Get(passed.data, EncryptedField(f))),
                           Utf8RoundTrip(call.data[f].v))

C4_Witness ==
  /\ called
  /\ call.action = "update"
  /\ Truthy(Get(call.data, "firstName")) /\ Truthy(Get(call.data, "phone"))
  /\ DOMAIN passed.data = {"firstNameEncrypted", "phoneEncrypted", "jewishStatus"}

\* ---------------------------------------------------------------- C5
\* how the read branch must leave the sensitive field f of a stored record:
\* decrypted under its plain name when the blob decrypts, untouched when not
FieldReadAs(stored, got, f, d) ==
  IF d.ok
    THEN /\ Get(got, f) = Str(d.value)
         /\ EncryptedField(f) \notin DOMAIN got
    ELSE /\ Get(got, EncryptedField(f)) = stored[EncryptedField(f)]
         /\ Get(got, f) = Get(stored, f)

\* C5: a UserProfile read in which an encrypted field fails to decrypt
\* returns every record and raises nothing; the failing field keeps its
\* Encrypted key and value and gets no plaintext key, every other encrypted
\* field of every record is decrypted.
C5_ReadSurvivesFailedDecrypt ==
  (calls > 0 /\ IsRead(call)) =>
    /\ called /\ result.ok
    /\ result.kind = raw.kind
    /\ Len(result.items) = Len(raw.items)
    /\ \A i \in 1..Len(raw.items), f \in Sensitive :
         EncryptedField(f) \in DOMAIN raw.items[i] =>
           FieldReadAs(raw.items[i], result.items[i], f,
                       decrypt(env, raw.items[i][EncryptedField(f)]))

\* a list read: one record has a blob that does not decrypt and one that
\* does, the other record is decrypted in full
C5_Witness ==
  /\ called /\ call.action = "findMany" /\ Len(result.items) = 2
  /\ \E i, j \in 1..2 :
       /\ i # j
       /\ "firstNameEncrypted" \in DOMAIN result.items[i]
       /\ "firstName" \notin DOMAIN result.items[i]
       /\ Get(result.items[i], "phone") = Str(<<97, 97>>)
       /\ "phoneEncrypted" \in DOMAIN raw.items[j]
       /\ Get(result.items[j], "phone") = Str(<<97>>)
       /\ "phoneEncrypted" \notin DOMAIN result.items[j]

\* ---------------------------------------------------------------- C6
\* C6: when encrypting a sensitive field fails during a UserProfile create or
\* update, through the middleware or in the registration endpoint, nothing
\* is written (no record with ciphertext for only some fields) and the
\* failure reaches the caller.
C6_FailedEncryptionWritesNothing ==
  [][(calls' = calls + 1 /\ (encThrew' \/ response'.encThrew)) =>
       /\ db' = db
       /\ users' = users
       /\ encThrew' => (~called' /\ ~result'.ok /\ result'.message = MsgEncrypt)
       /\ response'.encThrew => response'.status = 500]_vars

\* the second field's encryption failed after the first one's ciphertext was
\* already put in the payload
C6_Witness ==
  /\ encThrew
  /\ "firstNameEncrypted" \in DOMAIN passed.data
  /\ Truthy(Get(passed.data, "phone"))
  /\ ~called

\* ---------------------------------------------------------------- C7
\* the id of a record
IdOf(record) == record["id"].v[1]

\* C7 as stated: with a valid master key every record the middleware returns
\* from a create, update or read holds its sensitive fields in plaintext
\* under their plain names, with the values last written, and never under
\* an Encrypted name.
C7_ReturnedRecordsArePlain ==
  (called /\ result.ok /\ ~ShortKey(env) /\ ~corrupted) =>
    \A i \in 1..Len(result.items), f \in Sensitive :
      /\ EncryptedField(f) \notin DOMAIN result.items[i]
      /\ f \in DOMAIN plain[IdOf(result.items[i])] =>
           Get(result.items[i], f) = plain[IdOf(result.items[i])][f]

\* ---------------------------------------------------------------- C9
\* C9 as stated: for every obj and field list F, encryptObject(obj, F)
\* returns a mapping where every f of F that held a non-empty string is
\* gone and fEncrypted holds a blob that decrypts to obj[f].
C9_EveryListedFieldReplaced ==
  (objOp = "encryptObject" /\ objOut.ok) =>
    \A i \in 1..Len(objFields) :
      (IsString(Get(objIn, objFields[i])) /\ Get(objIn, objFields[i]).v # << >>) =>
        /\ objFields[i] \notin DOMAIN objOut.value
        /\ ResolvedWith(decrypt(env, Get(objOut.value, EncryptedField(objFields[i]))),
                        objIn[objFields[i]].v)

\* no field of the list is the Encrypted counterpart of another one
NoCounterpartListed(fields) ==
  \A i, j \in 1..Len(fields) : EncryptedField(fields[i]) # fields[j]

\* C9 amended: for every obj and every field list F in which no field is the
\* Encrypted counterpart of another, encryptObject(obj, F) returns a mapping
\* where every f of F that held a non-empty string is gone and fEncrypted
\* holds a blob that decrypts to obj[f] with each unpaired surrogate replaced
\* by U+FFFD, so to obj[f] itself when it has none.
C9_ListedFieldsReplaced ==
  (objOp = "encryptObject" /\ objOut.ok /\ NoCounterpartListed(objFields)) =>
    \A i \in 1..Len(objFields) :
      (IsString(Get(objIn, objFields[i])) /\ Get(objIn, objFields[i]).v # << >>) =>
        /\ objFields[i] \notin DOMAIN objOut.value
        /\ ResolvedWith(decrypt(env, Get(objOut.value, EncryptedField(objFields[i]))),
                        Utf8RoundTrip(objIn[objFields[i]].v))
        /\ WellFormed(objIn[objFields[i]].v) =>
             Utf8RoundTrip(objIn[objFields[i]].v) = objIn[objFields[i]].v

C9_Witness ==
  /\ objOp = "encryptObject" /\ objOut.ok
  /\ objFields = <<"firstName", "phone">>
  /\ objIn = [firstName |-> Str(<<97>>), phone |-> Str(<<97, 97>>), other |-> Str(<<120>>)]
  /\ DOMAIN objOut.value = {"firstNameEncrypted", "phoneEncrypted", "other"}

\* ---------------------------------------------------------------- C10
\* the keys that are neither a field of the list nor the Encrypted
\* counterpart of one are the same in a and b, with the same values
SameOtherKeys(a, b, fields) ==
  \A k \in DOMAIN a \cup DOMAIN b :
    (\A i \in 1..Len(fields) : k # fields[i] /\ k # EncryptedField(fields[i])) =>
      (k \in DOMAIN a /\ k \in DOMAIN b /\ a[k] = b[k])

\* C10: encryptObject, decryptObject and the middleware, on write payloads
\* and on read results, leave every key that is neither a configured
\* sensitive field nor the Encrypted counterpart of one as it was: none is
\* added, removed or changed.
C10_OtherKeysUntouched ==
  /\ (calls > 0 /\ IsWrite(call)) => SameOtherKeys(call.data, passed.data, sensitiveFields)
  /\ (called /\ IsRead(call)) =>
       /\ Len(result.items) = Len(raw.items)
       /\ \A i \in 1..Len(raw.items) :
            SameOtherKeys(raw.items[i], result.items[i], sensitiveFields)
  /\ (objOp # "none" /\ objOut.ok) => SameOtherKeys(objIn, objOut.value, objFields)

C10_Witness ==
  /\ called /\ call.action = "findMany" /\ Len(result.items) = 2
  /\ Get(raw.items[1], "jewishStatus") = Str(<<98>>)
  /\ "firstNameEncrypted" \in DOMAIN raw.items[1]
  /\ Get(result.items[1], "firstName") = Str(<<97>>)
  /\ Get(result.items[2], "jewishStatus") = Str(<<99>>)

\* ---------------------------------------------------------------- C11
\* what a failed call a shows of itself: the error thrown and the log line
Report(a) == <<a.name, a.message, a.logged, a.received>>

\* every failing encrypt call reports as e does
EncryptReportsAs(e) ==
  \A k \in MasterKeys, text \in PlainValues, fault \in BOOLEAN :
    ~encrypt(k, text, Rep(0, saltLength), Rep(200, ivLength), fault).ok =>
      Report(encrypt(k, text, Rep(0, saltLength), Rep(200, ivLength), fault)) = Report(e)

\* every failing decrypt call, on the blob of any plaintext, reports as d does
DecryptReportsAs(d) ==
  \A k \in MasterKeys, s \in Texts :
    ~decrypt(k, Str(encrypt(KeyA, Str(s), Rep(0, saltLength), Rep(200, ivLength), FALSE).value)).ok =>
      Report(decrypt(k, Str(encrypt(KeyA, Str(s), Rep(0, saltLength), Rep(200, ivLength), FALSE).value)))
        = Report(d)

\* C11: for any two plaintexts and any two master keys a failing encrypt or
\* decrypt call gives the same error payload and the same log text: nothing
\* in them depends on the plaintext or on the master key.
C11_FailuresReportAlike ==
  /\ (encrypted.name = "Error") => EncryptReportsAs(encrypted)
  /\ (pc = "decrypted" /\ ~decrypted.ok) => DecryptReportsAs(decrypted)

\* the part of C11 on the error payload alone: it is the same for all
C11_SamePayload ==
  /\ (encrypted.name = "Error") =>
       (encrypted.name = "Error" /\ encrypted.message = MsgEncrypt)
  /\ (pc = "decrypted" /\ ~decrypted.ok) =>
       (decrypted.name = "Error" /\ decrypted.message = MsgDecrypt)

\* ---------------------------------------------------------------- C12
\* the call that settled as e drew salt s1 and iv i1; a call that draws
\* another salt or another iv returns another blob
OtherDrawOtherBlob(e, s1, i1) ==
  \A s2 \in Salts, i2 \in Ivs :
    <<s1, i1>> # <<s2, i2>> =>
      encrypt(encKey, plaintext, s2, i2, FALSE).value # e.value

\* C12: two encrypt(s) calls under the same master key return different
\* blobs, because each call draws a fresh salt and a fresh iv: a second call
\* on the same string whose draws differ from the first's in the salt or in
\* the iv returns another blob.
C12_FreshDrawsFreshBlob ==
  (pc = "encrypted" /\ encrypted.ok /\ tampered = "none") =>
    OtherDrawOtherBlob(encrypted, ExtractSalt(FromBase64(encrypted.value)),
                       FromHex(encrypted.iv))

\* encrypt("aa") has returned a blob made with the second salt and second iv
C12_Witness ==
  /\ pc = "encrypted" /\ encrypted.ok
  /\ plaintext = Str(<<97, 97>>)
  /\ ExtractSalt(FromBase64(encrypted.value)) = Rep(1, saltLength)
  /\ FromHex(encrypted.iv) = Rep(201, ivLength)
  /\ encrypted.value # encrypt(encKey, plaintext, Rep(1, saltLength), Rep(200, ivLength), FALSE).value

\* ---------------------------------------------------------------- C13
\* combined is salt, iv, tag and ciphertext of the call that settled as e,
\* in this order and at the offsets 0, 32, 48 and 64
PackedAs(e, combined, salt) ==
  /\ Len(salt) = 32
  /\ e = encrypt(encKey, plaintext, salt, FromHex(e.iv), FALSE)
  /\ Len(combined) = 32 + 16 + 16 + Len(Utf8Encode(plaintext.v))
  /\ Subarray(combined, 32, 48) = FromHex(e.iv)
  /\ Subarray(combined, 48, 64) = FromHex(e.authTag)
  /\ Subarray(combined, 64, Len(combined))
       = CipherBytes(deriveKey(encKey.v, salt), Utf8Encode(plaintext.v))
  /\ Subarray(combined, 48, 64)
       = GcmTag(deriveKey(encKey.v, salt), Subarray(combined, 64, Len(combined)))
  /\ ExtractSalt(combined) = salt
  /\ ExtractIv(combined) = Subarray(combined, 32, 48)
  /\ ExtractAuthTag(combined) = Subarray(combined, 48, 64)
  /\ ExtractEncrypted(combined) = Subarray(combined, 64, Len(combined))

\* C13: every blob encrypt returns decodes from base64 to 32 + 16 + 16 + N
\* bytes, salt, iv, tag and ciphertext in this order, and the offsets decrypt
\* slices at (0-32, 32-48, 48-64, 64-end) give back the salt, iv, tag and
\* ciphertext that encrypt packed.
C13_WireFormat ==
  (pc = "encrypted" /\ encrypted.ok /\ tampered = "none") =>
    PackedAs(encrypted, FromBase64(encrypted.value),
             Subarray(FromBase64(encrypted.value), 0, 32))

\* the blob of U+1F600, four bytes in UTF-8, and the blob of ""
C13_Witness ==
  /\ pc = "encrypted" /\ encrypted.ok /\ tampered = "none"
  /\ \/ plaintext = Str(<<55357, 56832>>) /\ Len(FromBase64(encrypted.value)) = 68
     \/ plaintext = Str(<< >>) /\ Len(FromBase64(encrypted.value)) = 64

\* ---------------------------------------------------------------- C14
\* the two paths the middleware is registered for
WritePath(p) == p.model = "UserProfile" /\ p.action \in {"create", "update"}
ReadPath(p) ==
  p.model = "UserProfile" /\ p.action \in {"findUnique", "findFirst", "findMany"}

\* C14: for a call on another model than UserProfile, or with an action that
\* is neither create/update nor findUnique/findFirst/findMany, the middleware
\* hands the arguments to storage unchanged and returns storage's result
\* unchanged; on the read actions it never alters the arguments and on the
\* write actions it never alters the result.
C14_OtherCallsPassThrough ==
  (calls > 0 /\ call # NoParams) =>
    /\ ~WritePath(call) => (called /\ passed = call)
    /\ (~ReadPath(call) /\ called) => result = raw

\* a list read on another model returned a record with a blob that decrypts
C14_Witness ==
  /\ called /\ call.model = "User" /\ call.action = "findMany"
  /\ Len(result.items) = 1
  /\ decrypt(env, Get(result.items[1], "firstNameEncrypted")).ok
  /\ result = raw

\* ---------------------------------------------------------------- C15
\* every field of the list is absent from obj or a non-empty string, and obj
\* has no Encrypted key for a field of the list
Encryptable(obj, fields) ==
  \A i \in 1..Len(fields) :
    /\ fields[i] \in DOMAIN obj =>
         (IsString(obj[fields[i]]) /\ obj[fields[i]].v # << >>)
    /\ EncryptedField(fields[i]) \notin DOMAIN obj

\* no listed field of obj holds an unpaired surrogate
ListedWellFormed(obj, fields) ==
  \A i \in 1..Len(fields) :
    (fields[i] \in DOMAIN obj /\ IsString(obj[fields[i]])) => WellFormed(obj[fields[i]].v)

\* C15 as stated: for every obj whose fields listed in F are each absent or
\* a non-empty string and that has no Encrypted key for a field of F,
\* decryptObject(encryptObject(obj, F), F) equals obj.
C15_ObjectRoundTrip ==
  (objOp = "decryptEncrypted" /\ Encryptable(objSource, objFields)) =>
    objOut.value = objSource

\* C15 amended: the same, for an obj whose listed fields hold no unpaired
\* surrogate.
C15_ObjectRoundTripWellFormed ==
  (objOp = "decryptEncrypted" /\ Encryptable(objSource, objFields)
   /\ ListedWellFormed(objSource, objFields)) =>
    objOut.value = objSource

C15_Witness ==
  /\ objOp = "decryptEncrypted"
  /\ objFields = <<"firstName", "phone">>
  /\ objSource = [firstName |-> Str(<<97>>), phone |-> Str(<<97, 97>>), other |-> Str(<<120>>)]
  /\ DOMAIN objIn = {"firstNameEncrypted", "phoneEncrypted", "other"}
  /\ objOut.value = objSource

\* ---------------------------------------------------------------- C16
\* key k is in a and b alike: absent from both, or with the same value
SameEntry(a, b, k) == (k \in DOMAIN a <=> k \in DOMAIN b) /\ Get(a, k) = Get(b, k)

\* field f of obj is absent or holds a non-string value
AbsentOrNonString(obj, f) == f \notin DOMAIN obj \/ ~IsString(obj[f])

\* C16 as stated: encryptObject and decryptObject raise no error and return
\* the entry as it was when a listed field (for decryptObject, its Encrypted
\* counterpart) is absent from the mapping or holds a non-string value.
C16_SkippedSilently ==
  /\ objOp = "encryptObject" =>
       /\ (\A i \in 1..Len(objFields) : AbsentOrNonString(objIn, objFields[i])) => objOut.ok
       /\ objOut.ok =>
            \A i \in 1..Len(objFields) :
              AbsentOrNonString(objIn, objFields[i]) =>
                SameEntry(objIn, objOut.value, objFields[i])
  /\ objOp = "decryptObject" =>
       /\ objOut.ok
       /\ \A i \in 1..Len(objFields) :
            AbsentOrNonString(objIn, EncryptedField(objFields[i])) =>
              /\ SameEntry(objIn, objOut.value, EncryptedField(objFields[i]))
              /\ SameEntry(objIn, objOut.value, objFields[i])

\* C16 amended: for a field list in which no field is the Encrypted
\* counterpart of another, encryptObject and decryptObject raise no error
\* and return the entry as it was when a listed field (for decryptObject, its
\* Encrypted counterpart) is absent or holds a non-string value, except that
\* decryptObject decrypts a counterpart holding an EncryptedData object.
C16_SkippedSilentlyButEncryptedData ==
  NoCounterpartListed(objFields) =>
    /\ objOp = "encryptObject" =>
         /\ (\A i \in 1..Len(objFields) : AbsentOrNonString(objIn, objFields[i])) => objOut.ok
         /\ objOut.ok =>
              \A i \in 1..Len(objFields) :
                AbsentOrNonString(objIn, objFields[i]) =>
                  SameEntry(objIn, objOut.value, objFields[i])
    /\ objOp = "decryptObject" =>
         /\ objOut.ok
         /\ \A i \in 1..Len(objFields) :
              (AbsentOrNonString(objIn, EncryptedField(objFields[i]))
               /\ Get(objIn, EncryptedField(objFields[i])).t # "obj") =>
                /\ SameEntry(objIn, objOut.value, EncryptedField(objFields[i]))
                /\ SameEntry(objIn, objOut.value, objFields[i])
         /\ \A i \in 1..Len(objFields) :
              (Get(objIn, EncryptedField(objFields[i])).t = "obj"
               /\ decrypt(env, Get(objIn, EncryptedField(objFields[i]))).ok) =>
                /\ EncryptedField(objFields[i]) \notin DOMAIN objOut.value
                /\ Get(objOut.value, objFields[i])
                     = Str(decrypt(env, Get(objIn, EncryptedField(objFields[i]))).value)

\* encryptObject skipped the number in phone, decryptObject the number in
\* phoneEncrypted
C16_Witness ==
  /\ objOut.ok /\ objOut.value = objIn
  /\ objFields = <<"firstName", "phone">>
  /\ \/ objOp = "encryptObject" /\ Get(objIn, "phone") = Num(5)
        /\ "firstName" \notin DOMAIN objIn
     \/ objOp = "decryptObject" /\ Get(objIn, "phoneEncrypted") = Num(5)

\* ---------------------------------------------------------------- C17
\* when the stored value of fEncrypted decrypts, as d says, the record
\* returned holds the plaintext under f and has no fEncrypted
ReplacedIfDecrypts(got, f, d) ==
  d.ok => (Get(got, f) = Str(d.value) /\ EncryptedField(f) \notin DOMAIN got)

\* C17: for a UserProfile read that returns one record, a list or nothing,
\* the middleware replaces in every record of the result each fEncrypted
\* value that decrypts by f holding the plaintext and removes the fEncrypted
\* key; a null or empty result is returned as it is.
C17_ReadDecryptsEveryRecord ==
  (called /\ ReadPath(call)) =>
    /\ result.ok /\ result.kind = raw.kind /\ Len(result.items) = Len(raw.items)
    /\ raw.items = << >> => result = raw
    /\ \A i \in 1..Len(raw.items), f \in Sensitive :
         ReplacedIfDecrypts(result.items[i], f,
                            decrypt(env, Get(raw.items[i], EncryptedField(f))))

\* a single record was returned, decrypted in its two encrypted fields
C17_Witness ==
  /\ called /\ call.action \in {"findUnique", "findFirst"}
  /\ raw.kind = "one"
  /\ {"firstNameEncrypted", "phoneEncrypted"} \subseteq DOMAIN raw.items[1]
  /\ Get(result.items[1], "firstName") = Str(<<97>>)
  /\ Get(result.items[1], "phone") = Str(<<97, 97>>)
  /\ DOMAIN result.items[1] = {"id", "firstName", "phone", "jewishStatus"}

\* ---------------------------------------------------------------- C18
\* C18: decrypt returns the complete plaintext or raises: on any failure (a
\* tag that does not match, a malformed blob or one cut shorter than the
\* 64-byte header, a missing master key) it returns no string at all, never
\* a prefix or a partly decrypted value.
C18_CompleteOrNothing ==
  pc = "decrypted" =>
    /\ decrypted.ok => decrypted.value = Utf8RoundTrip(plaintext.v)
    /\ (tampered # "none" \/ ~Truthy(env)) =>
         (~decrypted.ok /\ decrypted.value = << >>)

\* what holds of C18 when the blob is one of a non-empty string
C18_CompleteOrNothingNonEmpty ==
  (pc = "decrypted" /\ plaintext.v # << >>) =>
    /\ decrypted.ok => decrypted.value = Utf8RoundTrip(plaintext.v)
    /\ (tampered # "none" \/ ~Truthy(env)) =>
         (~decrypted.ok /\ decrypted.value = << >>)

\* ---------------------------------------------------------------- C20
\* C20: the master key is read once at process start and held unchanged for
\* the life of the process: every encrypt and decrypt call uses that key
\* value, whatever happens to the configuration afterwards.
C20_KeyOfProcessStart ==
  [][/\ (pc = "idle" /\ encrypted' # encrypted) =>
          \E salt \in Salts, iv \in Ivs, fault \in BOOLEAN :
            encrypted' = encrypt(startKey', plaintext', salt, iv, fault)
     /\ (pc = "encrypted" /\ pc' = "decrypted") =>
          decrypted' = decrypt(startKey', IF form' = "str" THEN Str(blob') ELSE Obj(blob'))
    ]_vars

\* what the calls do use: the value process.env.ENCRYPTION_KEY has at the call
C20_KeyOfTheCall ==
  [][/\ (pc = "idle" /\ encrypted' # encrypted) =>
          \E salt \in Salts, iv \in Ivs, fault \in BOOLEAN :
            encrypted' = encrypt(env, plaintext', salt, iv, fault)
     /\ (pc = "encrypted" /\ pc' = "decrypted") =>
          decrypted' = decrypt(env, IF form' = "str" THEN Str(blob') ELSE Obj(blob'))
    ]_vars

\* ---------------------------------------------------------------- C19
\* the middleware run alone on the params of request q, against the table
\* its storage call found
Alone(q) == Middleware(env, q.store, q.params, q.r, 0)

\* the settled request q got what its call gives when it runs alone
AsIfAlone(q) ==
  IF q.op = "encrypt"
    THEN q.settled = encrypt(env, q.input, SaltDraw(q.r, 1), IvDraw(q.r, 1), FALSE)
  ELSE IF q.op = "decrypt"
    THEN q.settled = decrypt(env, q.input)
  ELSE /\ q.threw = Alone(q).threw
       /\ q.passed = Alone(q).passed.data
       /\ q.result = Alone(q).result
       /\ (q.params.action = "create" /\ ~q.threw) =>
            /\ Len(db) >= Len(q.store) + 1
            /\ db[Len(q.store) + 1] = q.result.items[1]

\* C19: under any interleaving of concurrent encrypt, decrypt and hook calls
\* of different requests, each call returns what it would return run alone:
\* the calls share no mutable state besides the read-only master key.
C19_EachCallAsIfAlone ==
  \A i \in Requests : reqs[i].pc = "done" => AsIfAlone(reqs[i])

\* two creates that encrypted two fields each have settled, each resumed
\* while the other was suspended
C19_Witness ==
  \A i \in Requests :
    /\ reqs[i].pc = "done"
    /\ reqs[i].met
    /\ reqs[i].params.action = "create"
    /\ reqs[i].n = 2
    /\ ~reqs[i].threw

\* ---------------------------------------------------------------- C21
\* a step is a registration request answered
Answered == calls' = calls + 1 /\ response'.status # 0

\* C21: the registration handler validates before it touches storage: no
\* user or profile row is written unless the body passed schema validation,
\* and a body failing validation is answered 400 with storage unchanged.
C21_ValidatedBeforeStorage ==
  [][Answered =>
       /\ (users' # users \/ db' # db) => response'.valid
       /\ ~response'.valid =>
            response'.status = 400 /\ users' = users /\ db' = db
    ]_vars

\* an invalid body was answered 400 while rows of an earlier registration
\* were stored
C21_Witness ==
  /\ response.status = 400
  /\ ~response.valid
  /\ Len(users) >= 1
  /\ Len(db) >= 1

\* ---------------------------------------------------------------- C22
\* C22: once an answer is selected for a question it is not replaced by a
\* different answer for that question until the quiz is restarted, whatever
\* next and previous navigation follows.
C22_SelectedAnswerKept ==
  [][\A q \in DOMAIN state.selectedAnswers :
       \/ state'.selectedAnswers = EmptyObject
       \/ /\ q \in DOMAIN state'.selectedAnswers
          /\ state'.selectedAnswers[q] = state.selectedAnswers[q]
    ]_vars

\* the same while the question stays on screen: with no navigation in
\* between, the answer buttons stay disabled
C22_KeptWhileShown ==
  [][(state'.currentQuestion = state.currentQuestion /\ state.showExplanation) =>
       \/ state'.selectedAnswers = state.selectedAnswers
       \/ state'.selectedAnswers = EmptyObject
    ]_vars

\* ---------------------------------------------------------------- C28
\* every question below the current one has a selected answer
AnsweredBelow(n) == \A q \in 0..(n - 1) : q \in DOMAIN state.selectedAnswers

\* finishQuiz can be triggered: its button is shown and enabled
CanFinish == View = "quiz" /\ isLastQuestion /\ hasSelectedAnswer

QuizPosition ==
  /\ state.currentQuestion \in 0..(totalQuestions - 1)
  /\ AnsweredBelow(state.currentQuestion)
  /\ CanFinish => AnsweredBelow(totalQuestions)

\* C28 as stated: after any sequence of selectAnswer, nextQuestion,
\* prevQuestion and restart actions the UI permits, currentQuestion is within
\* 0..totalQuestions-1 and every question below it has a selected answer;
\* hence when finishQuiz can be triggered every question has one.
C28_QuizPosition == QuizPosition

\* C28, for a topic that has at least one question
C28_QuizPositionNonEmptyTopic == totalQuestions >= 1 => QuizPosition

\* the last of three questions is reached and answered
C28_Witness ==
  /\ totalQuestions = 3
  /\ CanFinish
  /\ state.showExplanation

\* ---------------------------------------------------------------- C30
\* s is the integer nearest to 100 * num / den, a half going up
Nearest(s, num, den) ==
  /\ 2 * s * den - den <= 200 * num
  /\ 200 * num < 2 * s * den + den

C23_HitIsOwnTranslation ==
  lastResponse.hit =>
    lastResponse.of = [text |-> cleanText(lastRequest.text),
                       fromLanguage |-> lastRequest.fromLanguage,
                       toLanguage |-> lastRequest.toLanguage]

\* what a hit does guarantee: the same language pair and the same first 100
\* characters of the cleaned text
C23_HitSharesPrefix ==
  lastResponse.hit =>
    /\ Subarray(lastResponse.of.text, 0, 100) = Subarray(cleanText(lastRequest.text), 0, 100)
    /\ lastResponse.of.fromLanguage = lastRequest.fromLanguage
    /\ lastResponse.of.toLanguage = lastRequest.toLanguage

\* ---------------------------------------------------------------- C29
\* the call went past the cache to the providers
AskedProviders == lastResponse.tried # << >>

\* C29: translate never throws; with DeepL configured it is tried first and
\* Google only after DeepL failed; when every provider fails translate
\* returns the original text with confidence 0 and stores nothing, so that a
\* later call tries the providers again.
C29_FallbackOrder ==
  /\ ~lastResponse.threw
  /\ AskedProviders =>
       /\ (provider = "deepl" /\ deeplTranslator) => lastResponse.tried[1] = "deepl"
       /\ \A k \in 2..Len(lastResponse.tried) :
            lastResponse.tried[k] = "google" /\ lastResponse.tried[k - 1] = "deepl"
       /\ ~lastResponse.stored =>
            /\ lastResponse.translatedText = lastRequest.text
            /\ lastResponse.confidence = 0
            /\ getCachedTranslation(cache,
                  getCacheKey(cleanText(lastRequest.text), lastRequest.fromLanguage,
                              lastRequest.toLanguage), now) = << >>

\* DeepL, then Google, failed in a call made while the cache held the
\* translation of an earlier call
C29_Witness ==
  /\ lastResponse.tried = <<"deepl", "google">>
  /\ ~lastResponse.stored
  /\ lastResponse.confidence = 0
  /\ translations >= 2
  /\ cache # EmptyObject

\* ---------------------------------------------------------------- C24
\* the entries of list that are not of file f
EntriesOfOthers(list, f) == SelectSeq(list, LAMBDA e : e.file # f)

\* C24: progress, completion and error updates of an upload are applied to
\* the list entry of the file being uploaded, also when another file is
\* removed or a second drop is handled meanwhile; and the list never holds
\* more than maxFiles entries.
C24_UpdatesOwnEntry ==
  [][/\ updating' # 0 =>
          EntriesOfOthers(files', updating') = EntriesOfOthers(files, updating')
     /\ Len(files') <= maxFiles
    ]_vars

\* the part that holds: the list never holds more than maxFiles entries
C24_AtMostMaxFiles == Len(files) <= maxFiles

\* ---------------------------------------------------------------- C25
\* C25: once the session has no user and the provider's effect has run, the
\* provider's user is null and stays null until a new session starts (so
\* isAdmin, isModerator and hasProfile are false whenever isAuthenticated is
\* false), also when a refreshUser request started before sign-out is
\* answered after it.
C25_SignedOutUserIsNull ==
  (session = 0 /\ ~effectDue) =>
    /\ user = NoUser
    /\ ~isAdmin /\ ~isModerator /\ ~hasProfile

\* what the effect does establish: user is null right after it has run on a
\* session without a user
C25_EffectClearsUser ==
  [][(effectDue /\ ~effectDue' /\ session = 0) => user' = NoUser]_vars

C27_OneLogEntryPerAttempt ==
  mail.pc = "returned" => Len(emailLog) = Len(attempts)

\* the recipients are attempted in list order
InListOrder ==
  /\ Len(attempts) <= Len(mail.recipients)
  /\ \A k \in 1..Len(attempts) : attempts[k].to = mail.recipients[k]

\* every log entry is the entry of one attempt, with its recipient and its
\* outcome, and no attempt has two entries
AtMostOneEntryPerAttempt ==
  /\ \A k \in 1..Len(emailLog) :
       /\ emailLog[k].attempt \in 1..Len(attempts)
       /\ emailLog[k].toEmail = attempts[emailLog[k].attempt].to
       /\ emailLog[k].status =
            (IF attempts[emailLog[k].attempt].success THEN "SENT" ELSE "FAILED")
  /\ \A j, k \in 1..Len(emailLog) :
       j < k => emailLog[j].attempt < emailLog[k].attempt

\* only the last attempt can have failed, and after a failed attempt the
\* call is writing its log entry or has returned
StopsAtFirstFailure ==
  \A k \in 1..Len(attempts) :
    ~attempts[k].success =>
      /\ k = Len(attempts)
      /\ mail.pc \in {"log", "returned"}

\* the call returns true exactly when every recipient was sent
TrueWhenAllSent ==
  mail.pc = "returned" =>
    (mail.result <=> /\ Len(attempts) = Len(mail.recipients)
                     /\ \A k \in 1..Len(attempts) : attempts[k].success)

\* C27, amended: sendEmail handles the recipients in list order, writes at
\* most one log entry (SENT or FAILED, as the send went) for each recipient
\* it attempted, stops at the first recipient whose send fails without
\* sending to or logging any later recipient, and returns true exactly when
\* every recipient was sent.
C27_OrderedLoggedStopped ==
  /\ InListOrder
  /\ AtMostOneEntryPerAttempt
  /\ StopsAtFirstFailure
  /\ TrueWhenAllSent

\* a call with three recipients has returned false: the first was sent and
\* logged, the second failed and was logged, the third was left alone
C27_Witness ==
  /\ mail.pc = "returned"
  /\ ~mail.result
  /\ Len(mail.recipients) = MaxRecipients
  /\ Len(attempts) = 2
  /\ Len(emailLog) = 2
  /\ emailLog[1].status = "SENT"
  /\ emailLog[2].status = "FAILED"

====
